---- MODULE Spec2Model ----
(***************************************************************************)
(* A model of pyvantage (src/pyvantage/__init__.py): the request           *)
(* correlator (_RequestHelper), the id/name registry (Vantage.register_id),*)
(* the dispatcher (Vantage._recv), the entity update/command handlers, the *)
(* topology parser (VantageXmlDbParser.parse) and the transport            *)
(* (VantageConnection).  Each subsystem has its own specification over its *)
(* own group of variables; the other groups stay unchanged.                *)
(***************************************************************************)
EXTENDS Integers, Sequences, FiniteSets, TLC

VARIABLES
    \* ---- _RequestHelper, one instance, fine-grained (SpecCorr) ----
    cEvents,     \* _RequestHelper.__events: the registered waiters' events
    cSet,        \* the events on which Event.set() has been called
    cpc,         \* per caller thread: position inside request() / ev.wait()
    cFirst,      \* per caller thread: the local variable `first` of request()
    cEv,         \* per caller thread: the local variable `ev` of request()
    cReqs,       \* per caller thread: number of request() calls started
    npc,         \* the notifying (worker) thread: position inside notify()
    nLocal,      \* notify()'s local `events`, the part not yet iterated
    cHist,       \* history: what the correlator claims are stated over
    \* ---- the registry of one Vantage object (SpecReg, SpecParse) ----
    reg,         \* [ids: Vantage._ids, names: Vantage._names, objs: the entities]
    rLast,       \* the last constructor call and how it ended
    \* ---- VantageXmlDbParser (SpecParse) ----
    cfg,         \* the XML configuration: areas, loads, dry contacts
    ps,          \* the parser: position in parse() and its tables
    \* ---- the parsed entities at run time (Spec) ----
    topo,        \* the parsed Outputs and LoadGroups, by vid
    outs,        \* per Output: _level, _color_temp, _rgb_is_dirty, ...
    rd,          \* a caller thread reading `level`: position in _get_level
    sent,        \* the commands handed to send_cmd by the last step
    last,        \* the last operation and its result
    loop,        \* the receive loop of run(): "running" or "stopped"
    pads,        \* the Keypad, its Button, a dry contact, a Variable and
                 \* a Shade; the subscribers
    \* ---- a text Variable and the wire (SpecVar) ----
    tv,
    \* ---- the transport lock, worker and a reader (SpecLive) ----
    lv,
    \* ---- the sockets' lines, the handshake and the read buffer (SpecWire) ----
    hk,
    \* ---- one Output and the caller threads reading its level (SpecQuery) ----
    qv,
    \* ---- one Shade3, its callers and the panel's reports (SpecShade3) ----
    s3,
    \* ---- one colour Output, statement by statement (SpecDirty) ----
    dz

corrVars == <<cEvents, cSet, cpc, cFirst, cEv, cReqs, npc, nLocal, cHist>>
regVars == <<reg, rLast>>
parseVars == <<cfg, ps>>

runVars == <<topo, outs, rd, sent, last, loop, pads>>

vars == <<corrVars, regVars, parseVars, runVars, tv, lv, hk, qv, s3, dz>>

\* what the actions of each specification leave alone
corrFrame == <<regVars, parseVars, runVars, tv, lv, hk, qv, s3, dz>>
regFrame == <<corrVars, parseVars, runVars, tv, lv, hk, qv, s3, dz>>
parseFrame == <<corrVars, rLast, runVars, tv, lv, hk, qv, s3, dz>>
runFrame == <<corrVars, regVars, parseVars, tv, lv, hk, qv, s3, dz>>
varFrame == <<corrVars, regVars, parseVars, runVars, lv, hk, qv, s3, dz>>
liveFrame == <<corrVars, regVars, parseVars, runVars, tv, hk, qv, s3, dz>>
wireFrame == <<corrVars, regVars, parseVars, runVars, tv, lv, qv, s3, dz>>
queryFrame == <<corrVars, regVars, parseVars, runVars, tv, lv, hk, s3, dz>>
shade3Frame == <<corrVars, regVars, parseVars, runVars, tv, lv, hk, qv, dz>>
dirtyFrame == <<corrVars, regVars, parseVars, runVars, tv, lv, hk, qv, s3>>

Range(s) == {s[i] : i \in DOMAIN s}

(***************************************************************************)
(* _RequestHelper                                                          *)
(***************************************************************************)
Callers == {"c1", "c2"}
MaxRequests == 2      \* request() calls per caller thread
MaxNotifies == 2      \* notify() calls of the worker thread

NoEvent == <<"none", 0>>

\* `if not self.__events: first = True`
IsFirstAlways(events) == TRUE
IsFirst(events) == events = <<>>

\* `events = self.__events` -- what notify() takes out of the helper
NotifyTakenDropsLast(events) ==
    IF events = <<>> THEN events ELSE SubSeq(events, 1, Len(events) - 1)
NotifyTaken(events) == events

\* the registry before any parse: Vantage.__init__
RegEmpty == [ids |-> <<>>, names |-> <<>>, objs |-> <<>>, areas |-> <<>>,
             hierarchical |-> TRUE]
NoCall == [n |-> 0, cls |-> "none", typ |-> "None", vid |-> 0, dup |-> FALSE,
           prev |-> 0, raised |-> FALSE]
RegIdle == reg = RegEmpty /\ rLast = NoCall

\* VantageXmlDbParser.__init__
ParserNew == [pc |-> "areas", i |-> 1, skip |-> {}, vidToShade |-> <<>>,
              vidToLoad |-> <<>>, nameAreaToVid |-> <<>>, vidToColorvid |-> <<>>,
              outputs |-> <<>>, buttons |-> <<>>, sensors |-> <<>>,
              tasks |-> <<>>, nameToTask |-> <<>>, warns |-> {},
              call |-> [name |-> <<>>, sent |-> <<>>, exc |-> ""],
              run |-> 1, first |-> {}]
NoConfig == [areas |-> <<>>, loads |-> <<>>, contacts |-> <<>>,
             sensors |-> <<>>, tasks |-> <<>>]
ParseIdle == cfg = NoConfig /\ ps = ParserNew

\* the installations considered at run time; 0 stands for None
Load(kind, ltype, dmx, ccvid) ==
    [kind |-> kind, ltype |-> ltype, dmx |-> dmx, ccvid |-> ccvid,
     loadVids |-> <<>>, colorVids |-> <<>>]
\* a dimmer A (1), a DMX colour load B (2) and the load group G (3) of both
GroupInstallation ==
    (1 :> Load("LIGHT", "Incandescent", FALSE, 0))
    @@ (2 :> Load("LIGHT", "RGBW", TRUE, 0))
    @@ (3 :> [kind |-> "GROUP", ltype |-> "GROUP", dmx |-> TRUE, ccvid |-> 0,
              loadVids |-> <<1, 2>>, colorVids |-> <<2>>])
\* a lamp W (1) paired with its colour control K (2)
PairInstallation ==
    (1 :> Load("LIGHT", "Incandescent", FALSE, 2))
    @@ (2 :> Load("COLOR", "HID", FALSE, 1))
\* a relay R (1) and a colour control (2) whose lamp was not found
RelayInstallation ==
    (1 :> Load("RELAY", "Low Voltage Relay", FALSE, 0))
    @@ (2 :> Load("COLOR", "HID", FALSE, 0))
Installations == {GroupInstallation, PairInstallation, RelayInstallation}
\* a DMX colour load C (1) and a dynamic-white load D (2)
ColorInstallation ==
    (1 :> Load("LIGHT", "RGBW", TRUE, 0))
    @@ (2 :> Load("LIGHT", "DW", FALSE, 0))
Vids == DOMAIN topo

\* Output.__init__; levels are in tenths of a percent, colour temperatures
\* in tenths of a kelvin
OutputNew == [level |-> 0, colorTemp |-> 27000, dirty |-> FALSE,
              added |-> FALSE, events |-> <<>>, ramp |-> <<"0", "0", "0">>]
ReaderIdle == [pc |-> "idle", target |-> 0, on |-> 0, isSet |-> FALSE]
NoOp == [op |-> "none", vid |-> 0, level |-> 0]
\* the Buttons registered under BTN, by vid: a button at position 3 of the
\* keypad with vid 4, and a dry contact, which has no keypad (0); a
\* position is written as the text of its number
PadButtons ==
    (5 :> [keypad |-> 4, num |-> "3", name |-> "Room-Up [B]"])
    @@ (6 :> [keypad |-> 0, num |-> "0", name |-> "Room-Door [C]"])
PadEntities == DOMAIN PadButtons \cup {PadButtons[b].keypad : b \in {5}}
\* a Variable of subtype "number" (registered under VARIABLE) and a Shade
\* (registered under BLIND), by vid
VariableVids == {7}
ShadeVids == {8}
\* _value of each Button, _value and _extra_info of the Keypad, _value of
\* the Variable (<<>> for None, else the number in tenths or the text), the
\* Shade's _level (<<>> for None, else tenths) and the number of events its
\* _query_waiters hold, and the keys of Vantage._subscribers among them,
\* after construction.  shade.asked tells whether a GETBLIND was sent that
\* no line has answered yet.
PadsNew ==
    [subs |-> {}, value |-> [b \in DOMAIN PadButtons |-> "None"],
     keypad |-> [value |-> "None", name |-> "", action |-> ""],
     variable |-> <<>>,
     shade |-> [level |-> <<1000>>, events |-> 0, asked |-> FALSE]]

RunIdle ==
    /\ topo = <<>>
    /\ outs = <<>>
    /\ rd = ReaderIdle
    /\ sent = <<>>
    /\ last = NoOp
    /\ loop = "running"
    /\ pads = PadsNew

\* a text Variable before any write: _value is None (here the empty text)
VarNew == [pc |-> "idle", value |-> <<>>, written |-> <<>>, wire |-> <<>>]
\* VantageConnection after connect() has returned: every connection is
\* logged in, the worker thread waits in select(), nobody holds _lock
NumConnections == 2
Conns == 0..(NumConnections - 1)
LiveNew == [connected |-> [i \in Conns |-> FALSE],
            sockets |-> [i \in Conns |-> "None"],
            iconn |-> 0, lock |-> "free", panel |-> "up",
            wpc |-> "new", wi |-> 0, retry |-> FALSE,
            cpc |-> "new", cc |-> [alive |-> FALSE, res |-> ""],
            hs |-> [i \in Conns |-> <<>>],
            ls |-> [conn |-> 0, get |-> FALSE, out |-> ""], zero |-> FALSE,
            rpc |-> "idle", events |-> FALSE, isSet |-> FALSE]
\* the wire before the worker thread has started: no socket is open,
\* _chunk is b''.  creds: user and password are given; need: the connections
\* not marked connected; trace: per connection what the handshake sent and
\* read; unans, wire: per connection the commands the panel has not answered
\* and the lines on their way to the client; got: what the callback was
\* given, with the pending command it took; fifo: Vantage._cmds; app,
\* written: every command in the order of the appends to _cmds and in the
\* order of the writes, with the connection written to; cs: where each
\* caller of send_cmd is
Senders == {"a", "b"}
HkNew == [creds |-> TRUE, pc |-> "idle", i |-> 0, k |-> 0, need |-> Conns,
          open |-> [j \in Conns |-> FALSE],
          trace |-> [j \in Conns |-> <<>>],
          unans |-> [j \in Conns |-> <<>>],
          wire |-> [j \in Conns |-> <<>>],
          chunk |-> <<>>, got |-> <<>>, lines |-> 0, pushes |-> 0, logins |-> 0,
          timeouts |-> 0, iconn |-> 0, fifo |-> <<>>, app |-> <<>>,
          written |-> <<>>, cs |-> [c \in Senders |-> <<>>]]
\* One Output after construction and two caller threads that read its
\* level.  color: support_color; added: _addedstatus; events: the number of
\* events in _query_waiters; pc: where each caller is in _get_level; sent:
\* the commands handed to Vantage.send; reads: the reads begun
Readers == {"a", "b"}
QueryNew == [color |-> TRUE, added |-> FALSE, events |-> 0,
             pc |-> [t \in Readers |-> "idle"], sent |-> <<>>, reads |-> 0]
\* One Shade3 after construction: _isopen_vid and _stop_vid (0 for None),
\* _is_open, the number of events in _query_waiters, where each caller is
\* in open() / close() / stop(), and the value of the standalone Button of
\* the is-open contact.  route: the entity _ids['BTN'] holds for the
\* contact; sent: the commands handed to Vantage.send; done: the calls
\* that returned; last: the last step
Shade3New == [isopenVid |-> 0, stopVid |-> 0, route |-> "none", isOpen |-> "None",
              button |-> "None", events |-> 0,
              pc |-> [t \in Readers |-> "idle"],
              call |-> [t \in Readers |-> <<>>],
              sent |-> <<>>, done |-> <<>>, last |-> <<>>]
\* one DMX colour Output taken statement by statement: its fields _level,
\* _rgb_is_dirty, _rgb and _hs; the link its commands are written to; per
\* thread the statement it is at, the value it was called with and where
\* _invoke_rgb / _invoke_hs returns to; the last command sent; whether a
\* send has raised
Threads == Readers \cup {"w"}
DirtyNew == [level |-> 0, dirty |-> FALSE, rgb |-> 0, hs |-> 0, link |-> "up",
             pc |-> [t \in Threads |-> "idle"], arg |-> [t \in Threads |-> 0],
             ret |-> [t \in Threads |-> "idle"], sent |-> "", raised |-> FALSE,
             ops |-> 0]
OthersIdle ==
    tv = VarNew /\ lv = LiveNew /\ hk = HkNew /\ qv = QueryNew /\ s3 = Shade3New
    /\ dz = DirtyNew

NoHist == [all |-> {},          \* every event ever registered
           regEmpty |-> {},     \* events registered into an empty set
           acted |-> {},        \* events whose caller ran the action
           trig |-> 0,          \* actions triggered since the last notify
           runs |-> 0,          \* action runs since the last notify
           totalRuns |-> 0,     \* action runs in total
           notifs |-> 0,        \* notify() calls (lock sections) so far
           snap |-> {}]         \* the waiters registered at the last notify

CorrIdle ==
    /\ cEvents = <<>>
    /\ cSet = {}
    /\ cpc = [t \in Callers |-> "idle"]
    /\ cFirst = [t \in Callers |-> FALSE]
    /\ cEv = [t \in Callers |-> NoEvent]
    /\ cReqs = [t \in Callers |-> 0]
    /\ npc = "idle"
    /\ nLocal = <<>>
    /\ cHist = NoHist

CorrInit == CorrIdle /\ RegIdle /\ ParseIdle /\ RunIdle /\ OthersIdle

\* request(): `ev = threading.Event()` and the section under self.__lock
ReqLock(t) ==
    /\ cpc[t] = "idle"
    /\ cReqs[t] < MaxRequests
    /\ LET ev == <<t, cReqs[t] + 1>>
           first == IsFirst(cEvents)
       IN /\ cEv' = [cEv EXCEPT ![t] = ev]
          /\ cFirst' = [cFirst EXCEPT ![t] = first]
          /\ cHist' = [cHist EXCEPT
                 !.all = @ \cup {ev},
                 !.regEmpty = IF cEvents = <<>> THEN @ \cup {ev} ELSE @,
                 !.trig = IF first THEN @ + 1 ELSE @]
          /\ cEvents' = Append(cEvents, ev)
          /\ cpc' = [cpc EXCEPT ![t] = "locked"]
    /\ cReqs' = [cReqs EXCEPT ![t] = @ + 1]
    /\ UNCHANGED <<cSet, npc, nLocal, corrFrame>>

\* request(): `if first: action()` after the lock is released, then `return ev`
ReqAction(t) ==
    /\ cpc[t] = "locked"
    /\ cHist' = IF cFirst[t]
                THEN [cHist EXCEPT !.acted = @ \cup {cEv[t]},
                                   !.runs = @ + 1,
                                   !.totalRuns = @ + 1]
                ELSE cHist
    /\ cpc' = [cpc EXCEPT ![t] = "wait"]
    /\ UNCHANGED <<cEvents, cSet, cFirst, cEv, cReqs, npc, nLocal, corrFrame>>

\* the caller's bounded `ev.wait(timeout)`: it returns when the event is set
\* or when the timeout expires; the registration is left in place either way
ReqWaitReturn(t) ==
    /\ cpc[t] = "wait"
    /\ cpc' = [cpc EXCEPT ![t] = "idle"]
    /\ UNCHANGED <<cEvents, cSet, cFirst, cEv, cReqs, npc, nLocal, cHist, corrFrame>>

\* notify(): the section under self.__lock
NotifySwap ==
    /\ npc = "idle"
    /\ cHist.notifs < MaxNotifies
    /\ nLocal' = NotifyTaken(cEvents)
    /\ cEvents' = <<>>
    /\ npc' = "setting"
    /\ cHist' = [cHist EXCEPT !.trig = 0, !.runs = 0, !.notifs = @ + 1,
                              !.snap = Range(cEvents)]
    /\ UNCHANGED <<cSet, cpc, cFirst, cEv, cReqs, corrFrame>>

\* notify(): one iteration of `for ev in events: ev.set()`, or the return
NotifySet ==
    /\ npc = "setting"
    /\ IF nLocal = <<>>
       THEN /\ npc' = "idle"
            /\ UNCHANGED <<cSet, nLocal>>
       ELSE /\ cSet' = cSet \cup {Head(nLocal)}
            /\ nLocal' = Tail(nLocal)
            /\ UNCHANGED npc
    /\ UNCHANGED <<cEvents, cpc, cFirst, cEv, cReqs, cHist, corrFrame>>

CorrNext ==
    \/ \E t \in Callers : ReqLock(t)
    \/ \E t \in Callers : ReqAction(t)
    \/ \E t \in Callers : ReqWaitReturn(t)
    \/ NotifySwap
    \/ NotifySet

SpecCorr == CorrInit /\ [][CorrNext]_vars

(***************************************************************************)
(* Vantage.register_id and the entity constructors.  Names are sequences   *)
(* of characters; a dict is a function whose domain is its set of keys.    *)
(***************************************************************************)
StartsWith(s, p) == Len(p) <= Len(s) /\ SubSeq(s, 1, Len(p)) = p
\* python s[n:]
DropFirst(s, n) == SubSeq(s, n + 1, Len(s))
\* python s[0:-1]
ButLast(s) == IF s = <<>> THEN <<>> ELSE SubSeq(s, 1, Len(s) - 1)
Reverse(s) == [i \in 1..Len(s) |-> s[Len(s) + 1 - i]]

RECURSIVE LStrip(_)
LStrip(s) == IF s # <<>> /\ Head(s) = " " THEN LStrip(Tail(s)) ELSE s
\* python str.strip()
Strip(s) == Reverse(LStrip(Reverse(LStrip(s))))

\* dict.setdefault(k, {})
SetDefault(d, k) == IF k \in DOMAIN d THEN d ELSE (k :> <<>>) @@ d
\* d[k] = v
DictPut(d, k, v) == (k :> v) @@ d

LineageDepth == 10
StationLoadPrefix == <<"Station Load ">>
ColorLoadPrefix == <<"Color Load ">>

\* Vantage.get_lineage_from_obj: the loop that chases the parents
RECURSIVE LineageLoop(_, _, _)
LineageLoop(areas, area, count) ==
    IF count >= LineageDepth \/ area.parent = 0 THEN <<>>
    ELSE IF area.parent \in DOMAIN areas
         THEN <<areas[area.parent].name>>
                \o LineageLoop(areas, areas[area.parent], count + 1)
         ELSE <<>>

GetLineageFromObj(areas, obj) ==
    IF obj.area \notin DOMAIN areas THEN <<>>
    ELSE <<areas[obj.area].name>> \o LineageLoop(areas, areas[obj.area], 0)

\* register_id: `for n in reversed(lineage[:-1]): ... name += ns + "-"`
\* (no name_mappings configured)
RECURSIVE NamePrefix(_)
NamePrefix(names) ==
    IF names = <<>> THEN <<>>
    ELSE LET ns == Strip(Head(names))
         IN IF StartsWith(ns, StationLoadPrefix) \/ StartsWith(ns, ColorLoadPrefix)
            THEN NamePrefix(Tail(names))
            ELSE ns \o <<"-">> \o NamePrefix(Tail(names))

\* register_id: the hierarchical name of obj
HierarchicalName(areas, obj) ==
    LET lineage == GetLineageFromObj(areas, obj)
        name == NamePrefix(Reverse(ButLast(lineage)))
    IN IF StartsWith(obj.name, ButLast(name))
       THEN name \o DropFirst(obj.name, Len(name))
       ELSE name \o obj.name

\* f" ({obj.vid})"
VidSuffix(vid) == <<" ", "(", ToString(vid), ")">>

\* register_id: the vid is refused when it is in the dict `ids`, which after
\* the two setdefault calls is the dict of cmd_type2
VidExists(ids, cmdType, cmdType2, vid) == vid \in DOMAIN ids[cmdType2]

\* Vantage.register_id(cmd_type, cmd_type2, obj, vid); o is the index of obj
\* in r.objs, cmdType2 = "None" stands for None
RegisterId(r, cmdType, cmdType2, o, vid) ==
    LET ids0 == SetDefault(SetDefault(r.ids, cmdType), cmdType2)
    IN IF VidExists(ids0, cmdType, cmdType2, vid)
       THEN [reg |-> [r EXCEPT !.ids = ids0], raised |-> TRUE]
       ELSE
        LET ids1 == DictPut(ids0, cmdType, DictPut(ids0[cmdType], vid, o))
            ids2 == IF cmdType2 # "None"
                    THEN DictPut(ids1, cmdType2, DictPut(ids1[cmdType2], vid, o))
                    ELSE ids1
            obj == r.objs[o]
            hname == IF r.hierarchical THEN HierarchicalName(r.areas, obj)
                     ELSE obj.name
            fname == IF hname \in DOMAIN r.names
                     THEN hname \o VidSuffix(obj.vid) ELSE hname
        IN [reg |-> [r EXCEPT !.ids = ids2,
                              !.objs[o].name = fname,
                              !.names = DictPut(r.names, fname, obj.vid)],
            raised |-> FALSE]

\* the command types under which each class registers itself
CmdType(cls) ==
    CASE cls = "Output" -> "LOAD"
      [] cls = "Button" -> "BTN"
      [] cls = "Keypad" -> "KEYPAD"
      [] cls = "Task" -> "TASK"
      [] cls = "Variable" -> "VARIABLE"
      [] cls = "Shade" -> "BLIND"
      [] cls = "Shade3" -> "BTN"

\* Output.__init__: `"STATUS" if dmx_color else None`
CmdType2(obj) == IF obj.cls = "Output" /\ obj.dmx THEN "STATUS" ELSE "None"

\* a constructor that registers one id (Output, Button, Keypad, Task,
\* Variable, Shade): the object exists only if register_id does not raise
Constructed(r, res) ==
    IF res.raised
    THEN [reg |-> [res.reg EXCEPT !.objs = r.objs], raised |-> TRUE]
    ELSE res
Construct(r, obj) ==
    Constructed(r, RegisterId([r EXCEPT !.objs = Append(@, obj)],
                              CmdType(obj.cls), CmdType2(obj),
                              Len(r.objs) + 1, obj.vid))


(***************************************************************************)
(* SpecReg: any sequence of entity constructions on one Vantage object     *)
(***************************************************************************)
MaxCalls == 3         \* constructor calls in one run
RegVids == {1, 2, 3}
RegNames == {<<"L">>, <<"L", " ", "(", "3", ")">>}
\* area 1 is the root (the project), area 2 a room in it
RegAreas == (1 :> [name |-> <<"G">>, parent |-> 0])
            @@ (2 :> [name |-> <<"R">>, parent |-> 1])
\* the kinds of entity constructed, each with the area it is placed in
RegClasses == {[cls |-> "Output", dmx |-> FALSE, area |-> 1],
               [cls |-> "Output", dmx |-> FALSE, area |-> 2],
               [cls |-> "Output", dmx |-> TRUE, area |-> 1],
               [cls |-> "Button", dmx |-> FALSE, area |-> 2]}

\* the entity registered under (typ, vid), 0 if there is none
Routed(r, typ, vid) ==
    IF typ \in DOMAIN r.ids /\ vid \in DOMAIN r.ids[typ] THEN r.ids[typ][vid] ELSE 0

RegInit ==
    /\ reg = [RegEmpty EXCEPT !.areas = RegAreas]
    /\ rLast = NoCall
    /\ CorrIdle
    /\ ParseIdle
    /\ RunIdle
    /\ OthersIdle

RegConstruct(c, vid, name) ==
    /\ rLast.n < MaxCalls
    /\ LET obj == [cls |-> c.cls, dmx |-> c.dmx, name |-> name, vid |-> vid,
                   area |-> c.area]
           res == Construct(reg, obj)
       IN /\ reg' = res.reg
          /\ rLast' = [n |-> rLast.n + 1, cls |-> c.cls, typ |-> CmdType(c.cls),
                       vid |-> vid,
                       dup |-> Routed(reg, CmdType(c.cls), vid) # 0,
                       prev |-> Routed(reg, CmdType(c.cls), vid),
                       raised |-> res.raised]
    /\ UNCHANGED regFrame

RegNext ==
    \E c \in RegClasses, vid \in RegVids, name \in RegNames :
        RegConstruct(c, vid, name)

SpecReg == RegInit /\ [][RegNext]_vars

\* C5: for every command-type T and id v, constructing a second entity under
\* (T, v) while one is registered there fails with VIDExistsError and leaves
\* the routing table entry of (T, v) pointing at the first entity.
C5_DuplicateVidRefused ==
    rLast.dup => (rLast.raised /\ Routed(reg, rLast.typ, rLast.vid) = rLast.prev)

\* C6: after any sequence of registrations of entities with pairwise
\* different ids, any two distinct entities carry different display names
\* (the second of two equal names having got its id appended) and each id is
\* routed to its own entity in the id table.
C6_NamesUnique ==
    (\A i, j \in DOMAIN reg.objs : i # j => reg.objs[i].vid # reg.objs[j].vid)
    => \A i, j \in DOMAIN reg.objs :
        i # j =>
            /\ reg.objs[i].name # reg.objs[j].name
            /\ Routed(reg, CmdType(reg.objs[i].cls), reg.objs[i].vid) = i

(***************************************************************************)
(* VantageXmlDbParser: areas, loads (with the composite Shade3 assembly)   *)
(* and dry contacts.  A name is a sequence of tokens; the words the parser *)
(* looks for (" Open", " Close", " Stop", " Is Open", " COLOR") are tokens *)
(* of their own, in lower, title and upper case.                           *)
(***************************************************************************)
OpenTokens == {" open", " Open", " OPEN"}
CloseWord == [lower |-> " close", title |-> " Close", upper |-> " CLOSE"]
StopWord == [lower |-> " stop", title |-> " Stop", upper |-> " STOP"]
IsOpenWord == [lower |-> " is open", title |-> " Is Open", upper |-> " IS OPEN"]

\* replace_keep_case(' open', replacement, text)
ReplaceKeepCase(word, text) ==
    [i \in DOMAIN text |->
        CASE text[i] = " open" -> word.lower
          [] text[i] = " Open" -> word.title
          [] text[i] = " OPEN" -> word.upper
          [] OTHER -> text[i]]

\* xml_name.lower().endswith(" open")
EndsWithOpen(name) == name # <<>> /\ name[Len(name)] \in OpenTokens
\* t.endswith(' COLOR')
EndsWithColor(name) == name # <<>> /\ name[Len(name)] = " COLOR"

\* parse(): ordered_loads = open_loads + other_loads + color_loads
OrderedLoads(loads) ==
    SelectSeq(loads, LAMBDA l : ~EndsWithColor(l.name) /\ EndsWithOpen(l.name))
    \o SelectSeq(loads, LAMBDA l : ~EndsWithColor(l.name) /\ ~EndsWithOpen(l.name))
    \o SelectSeq(loads, LAMBDA l : EndsWithColor(l.name))

\* objects.findall("Object/Load[Name='...']") and the DryContact one
FindByName(elems, name) == SelectSeq(elems, LAMBDA e : e.name = name)

\* Shade3.__init__: registers the is-open contact under BTN and the open,
\* close and stop relays under LOAD, in that order; 0 stands for None
Shade3Registrations(vids) ==
    (IF vids[1] # 0 THEN <<<<"BTN", vids[1]>>>> ELSE <<>>)
    \o <<<<"LOAD", vids[2]>>, <<"LOAD", vids[3]>>>>
    \o (IF vids[4] # 0 THEN <<<<"LOAD", vids[4]>>>> ELSE <<>>)

RECURSIVE RegisterAll(_, _, _)
RegisterRest(res, o, rest) ==
    IF res.raised THEN res ELSE RegisterAll(res.reg, o, rest)
RegisterAll(r, o, todo) ==
    IF todo = <<>> THEN [reg |-> r, raised |-> FALSE]
    ELSE RegisterRest(RegisterId(r, Head(todo)[1], "None", o, Head(todo)[2]),
                      o, Tail(todo))

NewShade3(r, name, areaVid, vids) ==
    LET o == Len(r.objs) + 1
        obj == [cls |-> "Shade3", name |-> name, vid |-> vids[2],
                area |-> areaVid, vids |-> vids, dmx |-> FALSE]
    IN RegisterAll([r EXCEPT !.objs = Append(@, obj)], o, Shade3Registrations(vids))

\* _parse_3_shade: `return shade` after the Shade3 constructor
Shade3Made(P, res) ==
    [P |-> [P EXCEPT !.reg = IF res.raised THEN P.reg ELSE res.reg],
     shade |-> IF res.raised THEN 0 ELSE Len(res.reg.objs),
     raised |-> res.raised]

\* _parse_3_shade: 0 for a shade that is rejected (None), else its object
Parse3Shade(P, isopen, open, close, stop) ==
    LET vids == <<IF isopen = <<>> THEN 0 ELSE isopen[1].vid, open.vid,
                  close.vid, IF stop = <<>> THEN 0 ELSE stop[1].vid>>
        shadeName == ButLast(Strip(open.name))
        mismatch == \/ open.area # close.area
                    \/ (isopen # <<>> /\ open.area # isopen[1].area)
                    \/ (stop # <<>> /\ open.area # stop[1].area)
    IN IF mismatch
       THEN [P |-> [P EXCEPT !.ps.warns = @ \cup {<<"areas do not match", open.vid>>}],
             shade |-> 0, raised |-> FALSE]
       ELSE Shade3Made(P, NewShade3(P.reg, shadeName, open.area, vids))

\* load_type.startswith("RGB"), over the load types of the configurations
RgbTypes == {"RGB", "RGBW", "RGBA"}
StartsWithRgb(ltype) == ltype \in RgbTypes
\* a Channel element is <<>> when absent, else <<text>>;
\* `ch.text and ch.text.strip() != ""`
Populated(ch) == Strip(ch[1]) # <<>>
\* _parse_output: dmx_color (RGBW is colour whatever Channel2 holds)
DmxColor(ld) ==
    StartsWithRgb(ld.ltype) /\ (ld.ltype = "RGBW" \/ Populated(ld.chans[2]))
\* _parse_output: the load type the Output is given
LoadTypeGiven(ld) ==
    IF StartsWithRgb(ld.ltype) /\ ld.ltype # "RGBW" /\ ~Populated(ld.chans[2])
    THEN "DW" ELSE ld.ltype
\* _parse_output: `ch1.text` on a missing Channel element raises
ChannelMissing(ld) ==
    StartsWithRgb(ld.ltype) /\ \E i \in 1..3 : ld.chans[i] = <<>>

\* _parse_output: `return output`, or None when the constructor raised
OutputMade(q, res) ==
    [P |-> [ps |-> q, reg |-> res.reg],
     out |-> IF res.raised THEN 0 ELSE Len(res.reg.objs)]

\* _parse_output: 0 for None (an exception inside is caught and logged)
ParseOutput(P, ld) ==
    LET outName == Strip(ld.name)
        otype == IF ld.ltype \in {"High Voltage Relay", "Low Voltage Relay"}
                 THEN "RELAY"
                 ELSE IF ld.ltype = "HID" THEN "COLOR" ELSE "LIGHT"
        loadName == IF EndsWithColor(outName) THEN ButLast(outName) ELSE outName
        key == <<loadName, ld.area>>
        loadVid == IF key \in DOMAIN P.ps.nameAreaToVid
                   THEN P.ps.nameAreaToVid[key] ELSE 0
        paired == otype = "COLOR" /\ loadVid # 0
        dmx == DmxColor(ld)
        ltype == LoadTypeGiven(ld)
        ps1 == IF paired
               THEN [P.ps EXCEPT !.vidToColorvid = DictPut(@, loadVid, ld.vid)]
               ELSE P.ps
        ps2 == IF otype = "LIGHT"
               THEN [ps1 EXCEPT !.nameAreaToVid = DictPut(@, <<outName, ld.area>>, ld.vid)]
               ELSE ps1
        reg1 == IF paired
                THEN [P.reg EXCEPT !.objs[P.ps.vidToLoad[loadVid]].ccvid = ld.vid]
                ELSE P.reg
        obj == [cls |-> "Output", name |-> outName, vid |-> ld.vid,
                area |-> ld.area, otype |-> otype, ltype |-> ltype, dmx |-> dmx,
                ccvid |-> IF otype = "COLOR" THEN loadVid
                          ELSE IF ld.vid \in DOMAIN ps1.vidToColorvid
                               THEN ps1.vidToColorvid[ld.vid] ELSE 0]
    IN IF ld.area \notin DOMAIN P.reg.areas
          \/ (paired /\ loadVid \notin DOMAIN P.ps.vidToLoad)
          \/ ChannelMissing(ld)
       THEN [P |-> P, out |-> 0]
       ELSE OutputMade(ps2, Construct(reg1, obj))


\* _parse_drycontact: `return button`, or None when the constructor raised
ButtonMade(P, res) ==
    [P |-> [P EXCEPT !.reg = res.reg],
     button |-> IF res.raised THEN 0 ELSE Len(res.reg.objs)]

\* _parse_drycontact: 0 for None
ParseDryContactXml(P, dc) ==
    IF dc.vid \in DOMAIN P.ps.vidToShade
    THEN [P |-> P, button |-> 0]
    ELSE ButtonMade(P, Construct(P.reg,
             [cls |-> "Button", name |-> dc.name \o <<" [C]">>,
              vid |-> dc.vid, area |-> dc.area, dmx |-> FALSE]))

(***************************************************************************)
(* SpecParse: do_parse on one configuration out of a bounded family: a     *)
(* project G with rooms R and S; relays "X Open", "X Close" and optionally *)
(* "X Stop" (or a second "X Close"), optionally "Y Open"/"Y Close", a      *)
(* lamp with an optional colour control, and optionally a dry contact.     *)
(***************************************************************************)
ParseAreas == <<[vid |-> 1, name |-> <<"G">>, parent |-> 0],
                [vid |-> 2, name |-> <<"R">>, parent |-> 1],
                [vid |-> 3, name |-> <<"S">>, parent |-> 1]>>
NoChannels == <<<<>>, <<>>, <<>>>>
Relay(vid, name, area) ==
    [vid |-> vid, name |-> name, area |-> area,
     ltype |-> "Low Voltage Relay", chans |-> NoChannels]
Opt(x) == {<<>>, <<x>>}
CloseChoices == {<<Relay(11, <<"X", " Close">>, 2)>>,
                 <<Relay(11, <<"X", " Close">>, 3)>>,
                 <<Relay(11, <<"X", " CLOSE">>, 2)>>}
StopChoices == {<<>>, <<Relay(12, <<"X", " Stop">>, 2)>>,
                <<Relay(12, <<"X", " Stop">>, 3)>>,
                <<Relay(12, <<"X", " Close">>, 2)>>}
ContactChoices == {<<>>, <<[vid |-> 13, name |-> <<"X", " Is Open">>, area |-> 2]>>,
                   <<[vid |-> 13, name |-> <<"X", " Is Open">>, area |-> 3]>>,
                   <<[vid |-> 14, name |-> <<"Other">>, area |-> 2]>>}
LampOf(ltype, chans) ==
    [vid |-> 30, name |-> <<"Lamp">>, area |-> 2, ltype |-> ltype, chans |-> chans]
Lamp == LampOf("Incandescent", NoChannels)
\* the texts of a Channel element: a DMX address, nothing, or white space
ChSet == <<<<"1">>>>
ChEmpty == <<<<>>>>
ChBlank == <<<<" ">>>>
LampChoices ==
    {Lamp,
     LampOf("RGB", <<ChSet, ChSet, ChSet>>), LampOf("RGB", <<ChSet, ChEmpty, ChSet>>),
     LampOf("RGB", <<ChSet, ChBlank, ChSet>>), LampOf("RGB", <<ChSet, <<>>, ChSet>>),
     LampOf("RGB", <<ChEmpty, ChSet, ChSet>>),
     LampOf("RGBW", <<ChSet, ChSet, ChSet>>), LampOf("RGBW", <<ChSet, ChEmpty, ChSet>>),
     LampOf("RGBA", <<ChSet, ChEmpty, ChSet>>)}
LampColor == [vid |-> 31, name |-> <<"Lamp", " COLOR">>, area |-> 2,
              ltype |-> "HID", chans |-> NoChannels]
LoadConfigs ==
    {[areas |-> ParseAreas,
      loads |-> <<Relay(10, <<"X", " Open">>, 2)>> \o c \o s \o yo \o yc
                \o <<lamp>> \o lc,
      contacts |-> dc, sensors |-> <<>>, tasks |-> <<>>] :
        c \in CloseChoices, s \in StopChoices,
        yo \in Opt(Relay(20, <<"Y", " Open">>, 2)),
        yc \in Opt(Relay(21, <<"Y", " Close">>, 2)),
        lamp \in LampChoices, lc \in Opt(LampColor), dc \in ContactChoices}

\* OmniSensor elements with a Model the parser knows and one it does not,
\* and a Task element
Thermo == [vid |-> 40, name |-> <<"Temp">>, model |-> "Temperature"]
Hygro == [vid |-> 41, name |-> <<"Hum">>, model |-> "Humidity"]
Scene == [vid |-> 50, name |-> <<"Scene">>]
SensorConfigs ==
    {[areas |-> ParseAreas, loads |-> <<Lamp>>, contacts |-> <<>>,
      sensors |-> ss, tasks |-> ts] :
        ss \in {<<Thermo>>, <<Hygro>>, <<Hygro, Thermo>>, <<Thermo, Hygro>>},
        ts \in {<<Scene>>, <<Scene, [Scene EXCEPT !.name = <<"Away">>]>>}}
\* Load elements with the names an installer gives to unused and
\* station loads, next to an ordinary lamp
Spare(label) == [vid |-> 35, name |-> label, area |-> 2,
                 ltype |-> "Incandescent", chans |-> NoChannels]
SpareNames == {<<"NOT USED">>, <<"Station Load ", "4">>, <<"Color Load ", "2">>,
               <<"Spare">>}
SpareConfigs ==
    {[areas |-> ParseAreas, loads |-> <<Lamp, Spare(n)>>, contacts |-> <<>>,
      sensors |-> <<>>, tasks |-> <<>>] : n \in SpareNames}
ParseConfigs == LoadConfigs \cup SensorConfigs \cup SpareConfigs

ParseInit ==
    /\ cfg \in ParseConfigs
    /\ ps = ParserNew
    /\ reg = RegEmpty
    /\ rLast = NoCall
    /\ CorrIdle
    /\ RunIdle
    /\ OthersIdle

\* parse(): the loop over the Area elements, one element a step
ParseArea ==
    /\ ps.pc = "areas"
    /\ LET a == cfg.areas[ps.i]
       IN reg' = [reg EXCEPT !.areas = DictPut(@, a.vid,
                                   [name |-> a.name, parent |-> a.parent])]
    /\ ps' = IF ps.i < Len(cfg.areas) THEN [ps EXCEPT !.i = @ + 1]
             ELSE [ps EXCEPT !.pc = "loads", !.i = 1]
    /\ UNCHANGED <<cfg, parseFrame>>

\* the loops of parse() modelled, in order, and their elements
Phases == <<"areas", "loads", "contacts", "sensors", "tasks", "copy">>
Elements(phase) ==
    CASE phase = "areas" -> cfg.areas
      [] phase = "loads" -> cfg.loads
      [] phase = "contacts" -> cfg.contacts
      [] phase = "sensors" -> cfg.sensors
      [] phase = "tasks" -> cfg.tasks
      [] OTHER -> <<>>
\* the first loop from the k-th on that has an element to parse
RECURSIVE FirstPhase(_)
FirstPhase(k) ==
    IF Phases[k] = "copy" \/ Elements(Phases[k]) # <<>> THEN Phases[k]
    ELSE FirstPhase(k + 1)
\* where parse() goes after the element q.i of its k-th loop
NextElement(q, k) ==
    IF q.i < Len(Elements(Phases[k])) THEN [q EXCEPT !.i = @ + 1]
    ELSE [q EXCEPT !.pc = FirstPhase(k + 1), !.i = 1]
AfterLoad(q) == NextElement(q, 2)

\* parse() lines 555-559: the step after _parse_3_shade returned `sh`
ShadeStep(sh, ld) ==
    /\ ps' = IF sh.shade = 0
             THEN \* `shade.vids` on None, or register_id raising
                  [sh.P.ps EXCEPT !.pc = "failed"]
             ELSE AfterLoad(
                    [sh.P.ps EXCEPT
                       !.skip = {v \in Range(sh.P.reg.objs[sh.shade].vids) : v # 0},
                       !.vidToShade = DictPut(@, ld.vid, sh.shade),
                       !.outputs = Append(@, sh.shade)])
    /\ reg' = sh.P.reg

\* parse() lines 564-570: the step after _parse_output returned `out`
OutputStep(out, ld) ==
    /\ ps' = AfterLoad(IF out.out = 0 THEN out.P.ps
                       ELSE [out.P.ps EXCEPT
                               !.outputs = Append(@, out.out),
                               !.vidToLoad = DictPut(@, ld.vid, out.out)])
    /\ reg' = out.P.reg

\* parse(): one iteration of `for load_xml in ordered_loads`
ParseLoad ==
    /\ ps.pc = "loads"
    /\ LET ld == OrderedLoads(cfg.loads)[ps.i]
           P == [ps |-> ps, reg |-> reg]
           closes == FindByName(cfg.loads, ReplaceKeepCase(CloseWord, ld.name))
           stops == FindByName(cfg.loads, ReplaceKeepCase(StopWord, ld.name))
           isopens == FindByName(cfg.contacts, ReplaceKeepCase(IsOpenWord, ld.name))
       IN IF EndsWithOpen(ld.name) /\ Len(closes) = 1
          THEN ShadeStep(Parse3Shade(P, IF Len(isopens) = 1 THEN isopens ELSE <<>>,
                                     ld, closes[1],
                                     IF Len(stops) = 1 THEN stops ELSE <<>>), ld)
          ELSE IF ld.vid \in ps.skip
               THEN /\ ps' = AfterLoad(ps)
                    /\ reg' = reg
               ELSE OutputStep(ParseOutput(P, ld), ld)
    /\ UNCHANGED <<cfg, parseFrame>>

\* parse() lines 607-612: the step after _parse_drycontact returned `res`
ContactStep(res) ==
    /\ ps' = NextElement([res.P.ps EXCEPT !.buttons = IF res.button = 0 THEN @
                                                      ELSE Append(@, res.button)], 3)
    /\ reg' = res.P.reg

\* parse(): one iteration of `for dc_xml in drycontacts`
ParseDryContact ==
    /\ ps.pc = "contacts"
    /\ ContactStep(ParseDryContactXml([ps |-> ps, reg |-> reg], cfg.contacts[ps.i]))
    /\ UNCHANGED <<cfg, parseFrame>>

\* _parse_omnisensor: the kind of a Model (KeyError for any other), and
\* OmniSensor.__init__: `self._kind.upper()` is the command type
SensorKinds == ("Power" :> "power") @@ ("Current" :> "current")
               @@ ("Temperature" :> "sensor")
KindUpper == ("power" :> "POWER") @@ ("current" :> "CURRENT") @@ ("sensor" :> "SENSOR")
SensorKind(model) ==
    IF model \in DOMAIN SensorKinds THEN SensorKinds[model] ELSE "KeyError"

\* _parse_omnisensor: `return sensor`, or None after an exception
SensorMade(P, res) ==
    [P |-> [P EXCEPT !.reg = res.reg],
     sensor |-> IF res.raised THEN 0 ELSE Len(res.reg.objs)]
ParseOmniSensor(P, sx) ==
    IF SensorKind(sx.model) = "KeyError" THEN [P |-> P, sensor |-> 0]
    ELSE SensorMade(P, Constructed(P.reg,
            RegisterId([P.reg EXCEPT !.objs = Append(@,
                          [cls |-> "OmniSensor", name |-> sx.name, vid |-> sx.vid,
                           area |-> 0, kind |-> SensorKind(sx.model), dmx |-> FALSE])],
                       KindUpper[SensorKind(sx.model)], "None",
                       Len(P.reg.objs) + 1, sx.vid)))

\* parse() lines 622-627: `sensor.vid` on None raises AttributeError
SensorStep(res) ==
    /\ ps' = IF res.sensor = 0 THEN [res.P.ps EXCEPT !.pc = "failed"]
             ELSE NextElement([res.P.ps EXCEPT !.sensors = Append(@, res.sensor)], 4)
    /\ reg' = res.P.reg

\* parse(): one iteration of `for s in omnisensors`
ParseSensor ==
    /\ ps.pc = "sensors"
    /\ SensorStep(ParseOmniSensor([ps |-> ps, reg |-> reg], cfg.sensors[ps.i]))
    /\ UNCHANGED <<cfg, parseFrame>>

\* parse() lines 638-644 after _parse_task, which catches nothing
TaskStep(res, tx) ==
    /\ ps' = IF res.raised THEN [ps EXCEPT !.pc = "failed"]
             ELSE NextElement([ps EXCEPT
                                 !.tasks = Append(@, Len(res.reg.objs)),
                                 !.nameToTask = DictPut(@, tx.name, Len(res.reg.objs))],
                              5)
    /\ reg' = res.reg

\* parse(): one iteration of `for t in tasks`
ParseTask ==
    /\ ps.pc = "tasks"
    /\ TaskStep(Construct(reg, [cls |-> "Task", name |-> cfg.tasks[ps.i].name,
                                vid |-> cfg.tasks[ps.i].vid, area |-> 0,
                                dmx |-> FALSE]),
                cfg.tasks[ps.i])
    /\ UNCHANGED <<cfg, parseFrame>>

\* do_parse: parse() returned, the parser's lists are copied to the Vantage
DoParseCopy ==
    /\ ps.pc = "copy"
    /\ ps' = [ps EXCEPT !.pc = "done"]
    /\ UNCHANGED <<cfg, reg, parseFrame>>

\* the names a caller asks for: two that tasks of a configuration may have,
\* one that none has
TaskNames == {<<"Scene">>, <<"Away">>, <<"foo">>}
\* "TASK " + str(task.vid) + " RELEASE"
TaskCommand(name) == <<"TASK", reg.objs[ps.nameToTask[name]].vid, "RELEASE">>

\* a caller, after the configuration is loaded: call_task(name); ps.call
\* records the name, what the call sent and the exception it raised
CallTask(name) ==
    /\ ps.pc = "done"
    /\ ps' = [ps EXCEPT !.call =
                 IF name \in DOMAIN ps.nameToTask
                 THEN [name |-> name, sent |-> TaskCommand(name), exc |-> ""]
                 ELSE [name |-> name, sent |-> <<>>, exc |-> ""]]
    /\ UNCHANGED <<cfg, reg, parseFrame>>

ParseNext ==
    \/ ParseArea \/ ParseLoad \/ ParseDryContact \/ ParseSensor \/ ParseTask
    \/ DoParseCopy
    \/ \E name \in TaskNames : CallTask(name)

SpecParse == ParseInit /\ [][ParseNext]_vars

(***************************************************************************)
(* SpecReparse: do_parse runs a second time on the same Vantage object,    *)
(* on the same configuration or on one with the lamp alone.                *)
(***************************************************************************)
\* the entities a parse has published, and each with its class, id and name
Parsed(q) == Range(q.outputs) \cup Range(q.buttons) \cup Range(q.sensors)
             \cup Range(q.tasks)
Published(r, q) == {<<r.objs[o].cls, r.objs[o].vid, r.objs[o].name>> : o \in Parsed(q)}
LampOnly == [areas |-> ParseAreas, loads |-> <<Lamp>>, contacts |-> <<>>,
             sensors |-> <<>>, tasks |-> <<>>]

\* do_parse line 1495: a new VantageXmlDbParser, whose __init__ empties
\* vantage._vid_to_area; _ids and _names of the Vantage stay as they are.
\* ps.first keeps what the first parse published
DoParseAgain(c) ==
    /\ ps.pc = "done"
    /\ ps.run = 1
    /\ cfg' = c
    /\ ps' = [ParserNew EXCEPT !.run = 2, !.first = Published(reg, ps)]
    /\ reg' = [reg EXCEPT !.areas = <<>>]
    /\ UNCHANGED parseFrame

ReparseNext ==
    \/ ParseArea \/ ParseLoad \/ ParseDryContact \/ ParseSensor \/ ParseTask
    \/ DoParseCopy
    \/ \E c \in {cfg, LampOnly} : DoParseAgain(c)

SpecReparse == ParseInit /\ [][ReparseNext]_vars


(***************************************************************************)
(* Spec: the entities at run time -- the dispatcher (_recv), the update    *)
(* handlers and the level / rgb setters of Output and LoadGroup, and a     *)
(* caller thread reading `level`.  An operator takes and returns           *)
(* S = [outs, rd, sent]; the colour values themselves are not modelled.    *)
(***************************************************************************)
Levels == {0, 335}    \* 0.0 and 33.5 percent
MaxStale == 1         \* timed-out events left registered, over all Outputs
\* the durations set_ramp_sec is called with: up, down, color
RampSec == <<"1", "2", "3">>

\* round(x) of a value in tenths: nearest integer, a half to the even one
PyRound(t) ==
    IF t % 10 < 5 THEN t \div 10
    ELSE IF t % 10 > 5 THEN t \div 10 + 1
         ELSE IF (t \div 10) % 2 = 0 THEN t \div 10 ELSE t \div 10 + 1

LevelToKelvin(t) ==
    IF t < 0 THEN 22000 ELSE IF t > 1000 THEN 60000 ELSE 38 * t + 22000

IsDimmableLoad(c) == c.kind = "LIGHT" /\ c.ltype # "Non-Dim"
IsDimmable(v) ==
    IF topo[v].kind = "GROUP"
    THEN \E m \in Range(topo[v].loadVids) : IsDimmableLoad(topo[m])
    ELSE IsDimmableLoad(topo[v])

\* LoadGroup._brightness_vid, 0 for None
BrightnessVid(v) ==
    IF topo[v].kind = "GROUP" /\ Len(topo[v].loadVids) = 2
       /\ Len(topo[v].colorVids) = 1
    THEN IF topo[v].loadVids[1] = topo[v].colorVids[1]
         THEN topo[v].loadVids[2] ELSE topo[v].loadVids[1]
    ELSE 0
\* Vantage._brightnessvid_to_group_vid.get(v), 0 for None
BrightnessGroup(v) ==
    IF \E g \in Vids : BrightnessVid(g) = v
    THEN CHOOSE g \in Vids : BrightnessVid(g) = v ELSE 0

\* Vantage.send: the command as it is formatted for the wire
Send(S, op, vid, args) ==
    [S EXCEPT !.sent = Append(@, [op |-> op, vid |-> vid, args |-> args])]

\* _query_waiters.notify() of Output v (and a variant that forgets the waiters)
NotifyNobody(S, v) == S
Notify(S, v) ==
    [S EXCEPT !.outs[v].events = <<>>,
              !.rd.isSet = @ \/ "live" \in Range(S.outs[v].events)]

RampLevel(S, v, src) ==
    Send(S, "RAMPLOAD", v, <<ToString(PyRound(S.outs[src].level)), "0.1">>)
ClearDirty(S, v) ==
    IF S.outs[v].level > 0 THEN [S EXCEPT !.outs[v].dirty = FALSE] ELSE S
DmxRamp(S, v) ==
    IF topo[v].dmx /\ S.outs[v].level > 0 THEN RampLevel(S, v, v) ELSE S

RECURSIVE GroupInvoke(_, _, _, _)
GroupInvoke(S, g, vids, method) ==
    IF vids = <<>> THEN S
    ELSE GroupInvoke(
           IF topo[Head(vids)].dmx \/ topo[Head(vids)].ltype = "DW"
           THEN RampLevel(Send(S, "INVOKE", Head(vids), <<method>>), Head(vids), g)
           ELSE S,
           g, Tail(vids), method)

\* Output._invoke_rgb / LoadGroup._invoke_rgb
InvokeRgb(S, v) ==
    IF topo[v].kind = "GROUP"
    THEN ClearDirty(GroupInvoke(S, v, topo[v].loadVids, "RGBLoad.SetRGBW"), v)
    ELSE ClearDirty(DmxRamp(Send(S, "INVOKE", v, <<"RGBLoad.SetRGBW">>), v), v)

\* Output._invoke_hs / LoadGroup._invoke_hs
InvokeHs(S, v) ==
    IF topo[v].kind = "GROUP"
    THEN GroupInvoke(S, v, topo[v].loadVids, "RGBLoad.SetHSL")
    ELSE ClearDirty(DmxRamp(Send(S, "INVOKE", v, <<"RGBLoad.SetHSL">>), v), v)

FlushDirty(S, v) == IF S.outs[v].dirty THEN InvokeRgb(S, v) ELSE S
SendLevel(S, v, L) ==
    IF IsDimmable(v)
    THEN Send(S, "RAMPLOAD", v,
              <<ToString(PyRound(L)), S.outs[v].ramp[IF L = 0 THEN 2 ELSE 1]>>)
    ELSE Send(S, "LOAD", v, <<ToString(PyRound(L))>>)

\* Output._set_level
OutputSetLevel(S, v, L) ==
    IF S.outs[v].level = L THEN S
    ELSE SendLevel(FlushDirty([S EXCEPT !.outs[v].level = L], v), v, L)

\* LoadGroup._set_level (and a variant writing the group-local level only)
GroupSetLevelLocal(S, g, L) == OutputSetLevel(S, g, L)
LoadGroupSetLevel(S, g, L) ==
    OutputSetLevel(IF BrightnessVid(g) # 0
                   THEN OutputSetLevel(S, BrightnessVid(g), L) ELSE S,
                   g, L)

\* `obj.level = L`
SetLevel(S, v, L) ==
    IF topo[v].kind = "GROUP" THEN LoadGroupSetLevel(S, v, L)
    ELSE OutputSetLevel(S, v, L)

\* Output.handle_update, lines 1839-1849: the brightness delegate's group
UpdateGroup(S, v, L) ==
    IF BrightnessGroup(v) # 0
    THEN Notify(SetLevel(S, BrightnessGroup(v), L), BrightnessGroup(v))
    ELSE S
FlushOn(S, v, L) == IF L > 0 /\ S.outs[v].dirty THEN InvokeRgb(S, v) ELSE S

\* Output.handle_update with one argument, the level
HandleUpdate(S, v, L) ==
    IF topo[v].kind = "COLOR"
    THEN IF topo[v].ccvid \in Vids
         THEN Notify([S EXCEPT !.outs[topo[v].ccvid].colorTemp = LevelToKelvin(L)],
                     topo[v].ccvid)
         ELSE S
    ELSE UpdateGroup(Notify(FlushOn([S EXCEPT !.outs[v].level = L], v, L), v), v, L)

\* Output.rgb setter; `same` is `self._rgb == new_rgb`
SetRgb(S, v, same) ==
    IF same THEN FlushDirty(S, v)
    ELSE IF S.outs[v].level > 0
         THEN InvokeRgb([S EXCEPT !.outs[v].dirty = TRUE], v)
         ELSE InvokeHs([S EXCEPT !.outs[v].dirty = TRUE], v)

\* Output.hs setter; `same` is `self._hs == new_hs`
SetHs(S, v, same) == IF same THEN S ELSE InvokeHs(S, v)

\* kelvin_to_level, both in tenths; exact for the values written here
KelvinToLevel(t) ==
    IF t < 22000 THEN 0 ELSE IF t > 60000 THEN 1000
    ELSE ((t - 22000) * 1000) \div 38000

\* Output.color_temp setter; `same` is `self._rgb == kelvin_to_rgb(K)`.  The
\* RAMPLOAD goes to _color_control_vid, 0 for None
SetColorTemp(S, v, K, same) ==
    IF S.outs[v].colorTemp = K THEN S
    ELSE [Send(IF topo[v].dmx \/ topo[v].ltype = "DW" THEN SetRgb(S, v, same)
               ELSE S,
               "RAMPLOAD", topo[v].ccvid,
               <<ToString(PyRound(KelvinToLevel(K))), S.outs[v].ramp[3]>>)
          EXCEPT !.outs[v].colorTemp = K]

\* Output.__do_query_level
DoQueryLevel(S, v) ==
    Send(IF topo[v].dmx /\ ~S.outs[v].added
         THEN Send([S EXCEPT !.outs[v].added = TRUE], "ADDSTATUS", v, <<>>)
         ELSE S,
         "GETLOAD", v, <<>>)

\* Vantage._r_cmds, Vantage._s_cmds and the rewriting of GET replies
RCmds == {"LOGIN", "LOAD", "STATUS", "GETLOAD", "GETVARIABLE", "ERROR", "TASK",
          "GETBLIND", "BLIND", "INVOKE", "VARIABLE", "GETLIGHT", "GETPOWER",
          "GETCURRENT", "GETSENSOR", "ADDSTATUS", "DELSTATUS", "GETCUSTOM",
          "RAMPLOAD"}
SCmds == {"LOAD", "TASK", "BTN", "VARIABLE", "BLIND", "STATUS"}
\* a faulty variant: the prefix is kept
StripGetNever(cmd) == cmd
StripGet(cmd) ==
    CASE cmd = "GETLOAD" -> "LOAD" [] cmd = "GETVARIABLE" -> "VARIABLE"
      [] cmd = "GETBLIND" -> "BLIND" [] cmd = "GETPOWER" -> "POWER"
      [] cmd = "GETCURRENT" -> "CURRENT" [] cmd = "GETSENSOR" -> "SENSOR"
      [] cmd = "GETLIGHT" -> "LIGHT" [] OTHER -> cmd

\* _recv: the allow-list of an op marker (and a variant with one list)
AllowedAny(typ) == RCmds \cup SCmds
Allowed(typ) == IF typ = "R" THEN RCmds ELSE SCmds
\* the numeric tokens of the lines, `vid.isdigit()` and `int(vid)`
VidOf == ("1" :> 1) @@ ("2" :> 2) @@ ("3" :> 3) @@ ("5" :> 5) @@ ("6" :> 6)
         @@ ("7" :> 7) @@ ("8" :> 8) @@ ("9" :> 9)
\* `float(args[0])`, in tenths
LevelOf == ("0" :> 0) @@ ("33.5" :> 335)
\* self._ids.get(cmd_type): Outputs are registered under LOAD, colour
\* Outputs under STATUS as well, Buttons and dry contacts under BTN; {}
\* stands for None
Ids(cmdType) ==
    CASE cmdType = "LOAD" -> Vids
      [] cmdType = "STATUS" -> {v \in Vids : topo[v].dmx}
      [] cmdType = "BTN" -> DOMAIN PadButtons
      [] cmdType = "VARIABLE" -> VariableVids
      [] cmdType = "BLIND" -> ShadeVids
      [] OTHER -> {}

\* _recv: does the line `typ:parts...` (parts as split on blanks and
\* colons) reach handle_update_and_notify
Dispatched(typ, parts) ==
    /\ typ \in {"R", "S"}
    /\ Len(parts) >= 2
    /\ parts[1] \in Allowed(typ)
    /\ ~(typ = "R" /\ parts[1] \in {"STATUS", "ADDSTATUS", "DELSTATUS", "INVOKE",
                                    "GETCUSTOM", "RAMPLOAD", "ERROR"})
    /\ parts[1] \notin {"LOGIN", "ERROR", "TASK"}
    /\ parts[2] \in DOMAIN VidOf
    /\ VidOf[parts[2]] \in Ids(StripGet(parts[1]))
    /\ \/ typ = "S"
       \/ StripGet(parts[1]) \in {"LOAD", "POWER", "CURRENT", "VARIABLE",
                                  "SENSOR", "LIGHT", "BLIND"}

\* a faulty variant: the colour control returns itself
HandledSelf(v) == v
\* Output.handle_update: the object it returns (0 for None)
Handled(v) ==
    IF topo[v].kind = "COLOR"
    THEN IF topo[v].ccvid \in Vids THEN topo[v].ccvid ELSE 0
    ELSE v
\* handle_update_and_notify: every entity has a subscriber here
NotifySubscriber(S, h) == IF h # 0 THEN [S EXCEPT !.called = Append(@, h)] ELSE S
\* run(): `except Exception` around the callback; the loop goes on
Caught(S, exc) == [S EXCEPT !.exc = exc]

\* handle_update_and_notify on an Output: one argument is a level, none
\* raises IndexError at `args[0]`, several (not an RGB report) do nothing
HandleUpdateAndNotify(S, v, args) ==
    CASE Len(args) = 1 /\ args[1] \in DOMAIN LevelOf ->
            NotifySubscriber(HandleUpdate(S, v, LevelOf[args[1]]), Handled(v))
      [] Len(args) = 1 /\ args[1] \notin DOMAIN LevelOf -> Caught(S, "ValueError")
      [] Len(args) = 0 -> Caught(S, "IndexError")
      [] OTHER -> NotifySubscriber(S, v)

\* handle_update_and_notify: `if handled and handled in self._subscribers`
NotifySubscribed(S, h) ==
    IF h \in S.pads.subs THEN [S EXCEPT !.called = Append(@, h)] ELSE S
\* a faulty variant: the Button's handler returns None
ButtonReturnsNone(b) == 0
\* Button.handle_update ends with `return self`, on both branches
ButtonReturns(b) == b
\* Keypad.handle_update(args, _) with args = [num, name, value], called
\* through handle_update_and_notify: it returns the Keypad
KeypadUpdateAndNotify(S, k, args) ==
    NotifySubscribed([S EXCEPT !.pads.keypad =
                         [value |-> args[1], name |-> args[2], action |-> args[3]]],
                     k)
\* Button.handle_update: a keypad's button keeps the action and hands it to
\* the Keypad; a dry contact rewrites PRESS and RELEASE
ButtonHandleUpdate(S, b, action) ==
    IF PadButtons[b].keypad # 0
    THEN KeypadUpdateAndNotify([S EXCEPT !.pads.value[b] = action],
                               PadButtons[b].keypad,
                               <<PadButtons[b].num, PadButtons[b].name, action>>)
    ELSE [S EXCEPT !.pads.value[b] =
            CASE action = "PRESS" -> "Violated"
              [] action = "RELEASE" -> "Normal"
              [] OTHER -> action]
\* the notification with what the handler returned
ButtonNotify(S, h) == IF h = 0 THEN S ELSE NotifySubscribed(S, h)
\* handle_update_and_notify on a Button: `args[0]` raises IndexError when
\* the line has no argument
ButtonUpdateAndNotify(S, b, args) ==
    IF Len(args) = 0 THEN Caught(S, "IndexError")
    ELSE ButtonNotify(ButtonHandleUpdate(S, b, args[1]), ButtonReturns(b))

\* PollingSensor.handle_update of a number Variable: float(args[0]), the
\* argument itself when that raises, no change without an argument; it
\* returns the Variable on every path
VariableUpdateAndNotify(S, v, args) ==
    NotifySubscribed(
        IF Len(args) = 0 THEN S
        ELSE [S EXCEPT !.pads.variable =
                IF args[1] \in DOMAIN LevelOf THEN <<LevelOf[args[1]]>>
                ELSE <<args[1]>>],
        v)

\* Shade.handle_update: the level a report stands for; the waiters of
\* _query_waiters are left alone
ShadeValue(args) ==
    CASE args[1] = "OPEN" -> <<1000>>
      [] args[1] = "CLOSE" -> <<0>>
      [] args[1] = "STOP" -> <<>>
      [] args[1] = "POS" -> <<LevelOf[args[2]]>>
      [] OTHER -> <<LevelOf[args[1]]>>
ShadeRaises(args) ==
    CASE Len(args) = 0 -> "IndexError"
      [] args[1] \in {"OPEN", "CLOSE", "STOP"} -> ""
      [] args[1] = "POS" -> IF Len(args) < 2 THEN "IndexError"
                           ELSE IF args[2] \in DOMAIN LevelOf THEN "" ELSE "ValueError"
      [] OTHER -> IF args[1] \in DOMAIN LevelOf THEN "" ELSE "ValueError"
ShadeUpdateAndNotify(S, v, args) ==
    IF ShadeRaises(args) # "" THEN Caught(S, ShadeRaises(args))
    ELSE NotifySubscribed([S EXCEPT !.pads.shade.level = ShadeValue(args),
                                    !.pads.shade.asked = FALSE], v)

\* the lines the panel sends here, each an op marker and the parts after
\* it: level reports and replies for known and unknown ids, and lines
\* with an unknown marker, a single part, other commands, ids that are no
\* numbers, and no, several or unreadable arguments
Lines ==
    {<<typ, <<cmd, vid, l>>>> : typ \in {"R", "S"}, cmd \in {"LOAD", "GETLOAD"},
                               vid \in {"1", "2", "3", "9"}, l \in {"0", "33.5"}}
    \cup {<<"X", <<"LOAD", "1", "33.5">>>>, <<"S", <<"LOAD">>>>,
          <<"R", <<"RAMPLOAD", "1", "33.5">>>>, <<"R", <<"BTN", "1", "33.5">>>>,
          <<"S", <<"BTN", "1", "33.5">>>>, <<"S", <<"FOO", "1", "33.5">>>>,
          <<"S", <<"LOAD", "x", "33.5">>>>, <<"S", <<"LOAD", "", "33.5">>>>,
          <<"S", <<"LOAD", "1", "x">>>>, <<"S", <<"LOAD", "1">>>>,
          <<"S", <<"LOAD", "1", "33.5", "0">>>>}

\* the kind of decode fault of a line, "none" for a line without one
DecodeFault(typ, parts) ==
    CASE typ \notin {"R", "S"} -> "marker"
      [] Len(parts) < 2 -> "partial"
      [] parts[1] \notin (IF typ = "R" THEN RCmds ELSE SCmds) -> "command"
      [] parts[2] \notin DOMAIN VidOf -> "id"
      [] VidOf[parts[2]] \notin Ids(StripGet(parts[1])) -> "unrouted"
      [] OTHER -> "none"

Stale(o) ==
    Cardinality({p \in UNION {{<<v, i>> : i \in DOMAIN o[v].events} : v \in DOMAIN o} :
                    o[p[1]].events[p[2]] = "stale"})

Init ==
    /\ topo \in Installations
    /\ outs = [v \in DOMAIN topo |-> OutputNew]
    /\ rd = ReaderIdle
    /\ sent = <<>>
    /\ last = NoOp
    /\ loop = "running"
    /\ pads = PadsNew
    /\ CorrIdle
    /\ RegIdle
    /\ ParseIdle
    /\ OthersIdle

\* the result S of a step becomes the next state
Becomes(S, op) ==
    /\ outs' = S.outs
    /\ rd' = S.rd
    /\ sent' = S.sent
    /\ last' = op
    /\ loop' = IF "loop" \in DOMAIN S THEN S.loop ELSE loop
    /\ pads' = IF "pads" \in DOMAIN S THEN S.pads ELSE pads
    /\ UNCHANGED <<topo, runFrame>>

\* the level a line reports, 0 when it reports none
Reported(parts) ==
    IF Len(parts) = 3 /\ parts[3] \in DOMAIN LevelOf THEN LevelOf[parts[3]] ELSE 0
\* what a step of _recv leaves in `last`; pop: the line took the oldest
\* entry, if any, from the pending commands (lines 1243-1249)
RecvOp(S, typ, parts) ==
    [op |-> IF ~Dispatched(typ, parts) THEN "drop"
            ELSE IF S.exc # "" THEN "raise"
            ELSE IF Len(parts) = 3 THEN "recv" ELSE "noop",
     vid |-> IF Dispatched(typ, parts) THEN VidOf[parts[2]] ELSE 0,
     level |-> IF Dispatched(typ, parts) THEN Reported(parts) ELSE 0,
     fault |-> DecodeFault(typ, parts), called |-> S.called, exc |-> S.exc,
     pop |-> typ = "R"]
RecvDone(S, typ, parts) == Becomes(S, RecvOp(S, typ, parts))

\* _recv line 1306-1310: the object registered for the id gets the update
Dispatch(S, cmd, v, args) ==
    CASE cmd = "BTN" -> ButtonUpdateAndNotify(S, v, args)
      [] cmd = "VARIABLE" -> VariableUpdateAndNotify(S, v, args)
      [] cmd = "BLIND" -> ShadeUpdateAndNotify(S, v, args)
      [] OTHER -> HandleUpdateAndNotify(S, v, args)

\* _recv on the line `typ:parts...`: the state it leaves
RecvResult(typ, parts) ==
    IF Dispatched(typ, parts)
    THEN Dispatch([outs |-> outs, rd |-> rd, sent |-> <<>>, called |-> <<>>,
                   exc |-> "", loop |-> loop, pads |-> pads],
                  StripGet(parts[1]), VidOf[parts[2]], DropFirst(parts, 2))
    ELSE [outs |-> outs, rd |-> rd, sent |-> <<>>, called |-> <<>>,
          exc |-> "", loop |-> loop, pads |-> pads]

\* run() -> Vantage._recv on one line `typ:parts...`
Recv(typ, parts) ==
    /\ loop = "running"
    /\ RecvDone(RecvResult(typ, parts), typ, parts)

\* a caller thread: `output.level = L`
WriteLevel(v, L) ==
    Becomes(SetLevel([outs |-> outs, rd |-> rd, sent |-> <<>>], v, L),
            [op |-> "set", vid |-> v, level |-> L, pre |-> outs[v].level,
             preB |-> IF BrightnessVid(v) # 0 THEN outs[BrightnessVid(v)].level
                      ELSE 0])

\* a caller thread: `output.rgb = ...` on a colour-capable Output
WriteRgb(v, same) ==
    /\ topo[v].dmx
    /\ Becomes(SetRgb([outs |-> outs, rd |-> rd, sent |-> <<>>], v, same),
               [op |-> "rgb", vid |-> 0, level |-> 0, on |-> v, same |-> same,
                pre |-> outs[v].level, was |-> outs[v].dirty])

\* a caller thread: `output.hs = ...` on a colour-capable Output
WriteHs(v, same) ==
    /\ topo[v].dmx
    /\ Becomes(SetHs([outs |-> outs, rd |-> rd, sent |-> <<>>], v, same),
               [op |-> "hs", vid |-> 0, level |-> 0, on |-> v, same |-> same,
                pre |-> outs[v].level, was |-> outs[v].dirty])

\* a caller thread: `output.color_temp = K` on a load
WriteColorTemp(v, K, same) ==
    /\ topo[v].kind \notin {"COLOR", "GROUP"}
    /\ Becomes(SetColorTemp([outs |-> outs, rd |-> rd, sent |-> <<>>], v, K, same),
               [op |-> "ctemp", vid |-> 0, level |-> 0, on |-> v, kelvin |-> K,
                pre |-> outs[v].colorTemp])

\* a caller thread: `output.set_ramp_sec(up, down, color)`
SetRampSec(v) ==
    Becomes([outs |-> [outs EXCEPT ![v].ramp = RampSec], rd |-> rd, sent |-> <<>>],
            [op |-> "ramp", vid |-> 0, level |-> 0])

\* the Output whose _get_level does the request for a read of v.level
ReadOn(v) == IF BrightnessVid(v) # 0 THEN BrightnessVid(v) ELSE v

\* _get_level -> _RequestHelper.request, the part under the lock
ReadRequest(v) ==
    /\ rd.pc = "idle"
    /\ Becomes([outs |-> [outs EXCEPT ![ReadOn(v)].events = Append(@, "live")],
                rd |-> [pc |-> IF outs[ReadOn(v)].events = <<>> THEN "action"
                               ELSE "waiting",
                        target |-> v, on |-> ReadOn(v), isSet |-> FALSE],
                sent |-> <<>>],
               [op |-> "request", vid |-> 0, level |-> 0, on |-> ReadOn(v),
                abandoned |-> "stale" \in Range(outs[ReadOn(v)].events)])

\* request(): `if first: action()`
ReadAction ==
    /\ rd.pc = "action"
    /\ Becomes(DoQueryLevel([outs |-> outs, rd |-> [rd EXCEPT !.pc = "waiting"],
                             sent |-> <<>>], rd.on),
               [op |-> "query", vid |-> 0, level |-> 0])

\* ev.wait(0.03) returns, the event set or not, and _level is returned; an
\* event that was not set stays in __events
ReadReturn ==
    /\ rd.pc = "waiting"
    /\ rd.isSet \/ Stale(outs) < MaxStale
    /\ Becomes([outs |-> IF rd.isSet THEN outs
                         ELSE [outs EXCEPT ![rd.on].events =
                                 [i \in DOMAIN @ |-> "stale"]],
                rd |-> ReaderIdle, sent |-> <<>>],
               [op |-> "read", vid |-> rd.target, level |-> outs[rd.on].level,
                on |-> rd.on, isSet |-> rd.isSet,
                after |-> IF last.op = "recv" /\ last.vid = rd.on
                          THEN <<"recv", last.level>> ELSE <<"other", 0>>])

Next ==
    \/ \E ln \in Lines : Recv(ln[1], ln[2])
    \/ \E v \in Vids, L \in Levels : WriteLevel(v, L)
    \/ \E v \in Vids, same \in BOOLEAN : WriteRgb(v, same)
    \/ \E v \in Vids : ReadRequest(v)
    \/ ReadAction
    \/ ReadReturn

Spec == Init /\ [][Next]_vars

(***************************************************************************)
(* SpecLight: the writes of `level`, `rgb`, `hs` and `color_temp` on       *)
(* single loads with ramp durations set by set_ramp_sec, and the level     *)
(* reports of the panel.                                                   *)
(***************************************************************************)
DimLevels == {0, 200, 805}     \* 0.0, 20.0 and 80.5 percent
Kelvins == {27000, 41000}      \* 2700 K and 4100 K

LightInit ==
    /\ topo \in {PairInstallation, RelayInstallation, ColorInstallation}
    /\ outs = [v \in DOMAIN topo |-> OutputNew]
    /\ rd = ReaderIdle
    /\ sent = <<>>
    /\ last = NoOp
    /\ loop = "running"
    /\ pads = PadsNew
    /\ CorrIdle
    /\ RegIdle
    /\ ParseIdle
    /\ OthersIdle

LightNext ==
    \/ \E v \in Vids : SetRampSec(v)
    \/ \E v \in Vids, L \in DimLevels : WriteLevel(v, L)
    \/ \E v \in Vids, same \in BOOLEAN : WriteRgb(v, same)
    \/ \E v \in Vids, same \in BOOLEAN : WriteHs(v, same)
    \/ \E v \in Vids, K \in Kelvins, same \in BOOLEAN : WriteColorTemp(v, K, same)
    \/ \E v \in {"1", "2"}, l \in {"0", "33.5"} : Recv("S", <<"LOAD", v, l>>)

SpecLight == LightInit /\ [][LightNext]_vars

(***************************************************************************)
(* SpecPad: the updates of a keypad's Button and of a dry contact, with    *)
(* callers subscribing to the Keypad, the Button and the contact.          *)
(***************************************************************************)
PadInit ==
    /\ RunIdle
    /\ CorrIdle
    /\ RegIdle
    /\ ParseIdle
    /\ OthersIdle

\* a caller: Vantage.subscribe(obj, handler)
Subscribe(o) ==
    /\ pads' = [pads EXCEPT !.subs = @ \cup {o}]
    /\ last' = [op |-> "subscribe", vid |-> o, level |-> 0]
    /\ UNCHANGED <<topo, outs, rd, sent, loop, runFrame>>

\* the button lines the panel sends: actions of the Button and of the
\* contact, a reply, a line without an action and one for an unknown id
PadLines ==
    {<<"S", <<"BTN", vid, a>>>> : vid \in {"5", "6"},
                                 a \in {"PRESS", "RELEASE", "HOLD"}}
    \cup {<<"R", <<"BTN", "5", "PRESS">>>>, <<"S", <<"BTN", "5">>>>,
          <<"S", <<"BTN", "9", "PRESS">>>>}

PadNext ==
    \/ \E o \in PadEntities : Subscribe(o)
    \/ \E ln \in PadLines : Recv(ln[1], ln[2])

SpecPad == PadInit /\ [][PadNext]_vars

(***************************************************************************)
(* SpecRoute: replies and status lines for an installation of Outputs, the *)
(* Variable and the Shade.                                                 *)
(***************************************************************************)
RouteInit ==
    /\ topo \in {PairInstallation, RelayInstallation}
    /\ outs = [v \in DOMAIN topo |-> OutputNew]
    /\ rd = ReaderIdle
    /\ sent = <<>>
    /\ last = NoOp
    /\ loop = "running"
    /\ pads = PadsNew
    /\ CorrIdle
    /\ RegIdle
    /\ ParseIdle
    /\ OthersIdle

\* level reports as reply and as status line, for the Outputs, the Shade
\* and the Variable, and an unknown id
RouteLines ==
    {<<"R", <<"GETLOAD", vid, l>>>> : vid \in {"1", "2", "9"}, l \in {"0", "33.5"}}
    \cup {<<"S", <<"LOAD", vid, l>>>> : vid \in {"1", "2", "9"}, l \in {"0", "33.5"}}
    \cup {<<typ, <<cmd, "8">> \o args>> :
             typ \in {"R", "S"}, cmd \in {"GETBLIND", "BLIND"},
             args \in {<<"33.5">>, <<"OPEN">>, <<"STOP">>, <<"POS", "0">>, <<"x">>, <<>>}}
    \cup {<<typ, <<cmd, "7">> \o args>> :
             typ \in {"R", "S"}, cmd \in {"GETVARIABLE", "VARIABLE"},
             args \in {<<"33.5">>, <<"x">>}}

RouteNext ==
    \/ \E ln \in RouteLines : Recv(ln[1], ln[2])
    \/ \E o \in VariableVids \cup ShadeVids : Subscribe(o)

SpecRoute == RouteInit /\ [][RouteNext]_vars

(***************************************************************************)
(* SpecShade: a caller thread reading the Shade's level, and the panel's   *)
(* reports for the Shade.                                                  *)
(***************************************************************************)
MaxShadeReads == 3    \* reads of Shade.level

\* the reports for the Shade, as reply and as status line
ShadeLines ==
    {<<typ, <<cmd, "8">> \o args>> :
        typ \in {"R", "S"}, cmd \in {"GETBLIND", "BLIND"},
        args \in {<<"33.5">>, <<"OPEN">>, <<"STOP">>, <<"POS", "0">>}}

\* Shade.level getter -> _RequestHelper.request, the part under the lock
ShadeRequest ==
    /\ rd.pc = "idle"
    /\ pads.shade.events < MaxShadeReads
    /\ rd' = [pc |-> IF pads.shade.events = 0 THEN "action" ELSE "waiting",
              target |-> 8, on |-> 8, isSet |-> FALSE]
    /\ pads' = [pads EXCEPT !.shade.events = @ + 1]
    /\ sent' = <<>>
    /\ last' = [op |-> "request", vid |-> 8, level |-> 0]
    /\ UNCHANGED <<topo, outs, loop, runFrame>>

\* request(): `if first: action()`, which is Shade.__do_query_level
ShadeAction ==
    /\ rd.pc = "action"
    /\ rd.target \in ShadeVids
    /\ rd' = [rd EXCEPT !.pc = "waiting"]
    /\ pads' = [pads EXCEPT !.shade.asked = TRUE]
    /\ sent' = <<[op |-> "GETBLIND", vid |-> 8, args |-> <<>>]>>
    /\ last' = [op |-> "query", vid |-> 8, level |-> 0]
    /\ UNCHANGED <<topo, outs, loop, runFrame>>

\* ev.wait(0.03) returns, the event set or not, and _level is returned
ShadeReturn ==
    /\ rd.pc = "waiting"
    /\ rd.target \in ShadeVids
    /\ rd' = ReaderIdle
    /\ sent' = <<>>
    /\ last' = [op |-> "shade", vid |-> 8, level |-> 0, isSet |-> rd.isSet]
    /\ UNCHANGED <<topo, outs, loop, pads, runFrame>>

ShadeNext ==
    \/ \E ln \in ShadeLines : Recv(ln[1], ln[2])
    \/ \E o \in ShadeVids : Subscribe(o)
    \/ ShadeRequest
    \/ ShadeAction
    \/ ShadeReturn

SpecShade == PadInit /\ [][ShadeNext]_vars


(***************************************************************************)
(* SpecVar: a Variable of subtype "text" (kind 'variable_text', vid 7):    *)
(* the value setter, the command on the wire, and the dispatch of the      *)
(* panel's echo of it.  Texts and lines are sequences of characters; the   *)
(* words "VARIABLE" and "7" are kept as one element each.                  *)
(***************************************************************************)
MaxText == 3          \* characters of a written text
TextChars == {"a", " ", "\"", ":"}
Texts == UNION {[1..n -> TextChars] : n \in 0..MaxText}

\* val.replace('"', '""')
RECURSIVE DoubleQuotes(_)
DoubleQuotes(t) ==
    IF t = <<>> THEN <<>>
    ELSE (IF Head(t) = "\"" THEN <<"\"", "\"">> ELSE <<Head(t)>>)
         \o DoubleQuotes(Tail(t))

\* s.replace('""', '"'): leftmost non-overlapping occurrences
RECURSIVE UndoubleQuotes(_)
UndoubleQuotes(t) ==
    IF Len(t) >= 2 /\ t[1] = "\"" /\ t[2] = "\""
    THEN <<"\"">> \o UndoubleQuotes(SubSeq(t, 3, Len(t)))
    ELSE IF t = <<>> THEN <<>>
         ELSE <<Head(t)>> \o UndoubleQuotes(Tail(t))

\* re.split(r'[ :]', text): `cur` is the part being collected
RECURSIVE SplitLine(_, _)
SplitLine(t, cur) ==
    IF t = <<>> THEN <<cur>>
    ELSE IF Head(t) \in {" ", ":"}
         THEN <<cur>> \o SplitLine(Tail(t), <<>>)
         ELSE SplitLine(Tail(t), Append(cur, Head(t)))

\* s[1:-1]
Inner(t) == IF Len(t) >= 2 THEN SubSeq(t, 2, Len(t) - 1) ELSE <<>>

\* Variable.value setter -> Vantage.send("VARIABLE", vid, val)
VariableCommand(t) ==
    <<"VARIABLE", " ", "7", " ">> \o <<"\"">> \o DoubleQuotes(t) \o <<"\"">>

\* _recv on typ + ":" + the echoed command, then PollingSensor.handle_update
\* with args = parts[2:]; the line always has a third part here
EchoValue(typ, wire) == UndoubleQuotes(Inner(SplitLine(SubSeq(<<typ, ":">> \o wire, 3, Len(wire) + 2), <<>>)[3]))

VarInit ==
    /\ tv = VarNew
    /\ lv = LiveNew
    /\ hk = HkNew
    /\ qv = QueryNew
    /\ s3 = Shade3New
    /\ dz = DirtyNew
    /\ CorrIdle
    /\ RegIdle
    /\ ParseIdle
    /\ RunIdle

\* the values given to set_variable_vid: texts that may also hold digits and
\* newlines
ValueChars == {"a", "\"", "1", "\n"}
Values == UNION {[1..n -> ValueChars] : n \in 0..MaxText}
Digits == {"1"}
\* re.compile(r'^\d+$').match(value): `$` also matches before a final newline
NumMatch(t) ==
    LET body == IF t # <<>> /\ t[Len(t)] = "\n" THEN SubSeq(t, 1, Len(t) - 1)
                ELSE t
    IN body # <<>> /\ \A i \in DOMAIN body : body[i] \in Digits
\* re.compile(r'["\n\r]').match(value): match() tests the start of the value
ForbiddenMatch(t) == t # <<>> /\ t[1] \in {"\"", "\n", "\r"}

\* no caller is inside a call
VarCallerIdle == tv.pc \in {"idle", "echoed", "set", "raised"}

\* a caller: set_variable_vid(7, t); tv.wire is what the call sent
SetVariableVid(t) ==
    /\ VarCallerIdle
    /\ tv' = IF NumMatch(t)
             THEN [tv EXCEPT !.pc = "set", !.written = t,
                             !.wire = <<"VARIABLE", " ", "7", " ">> \o t]
             ELSE IF ForbiddenMatch(t)
             THEN [tv EXCEPT !.pc = "raised", !.written = t, !.wire = <<>>]
             ELSE [tv EXCEPT !.pc = "set", !.written = t,
                             !.wire = <<"VARIABLE", " ", "7", " ", "\"">> \o t
                                      \o <<"\"">>]
    /\ UNCHANGED varFrame

\* a caller: `variable.value = t`
VarWrite(t) ==
    /\ VarCallerIdle
    /\ tv' = [pc |-> "sent", value |-> t, written |-> t,
              wire |-> VariableCommand(t)]
    /\ UNCHANGED varFrame

\* the worker: the panel's reply or status line repeating the command
VarEcho(typ) ==
    /\ tv.pc = "sent"
    /\ tv' = [tv EXCEPT !.pc = "echoed", !.value = EchoValue(typ, tv.wire)]
    /\ UNCHANGED varFrame

VarNext ==
    \/ \E t \in Texts : VarWrite(t)
    \/ \E t \in Values : SetVariableVid(t)
    \/ \E typ \in {"S", "R"} : VarEcho(typ)

SpecVar == VarInit /\ [][VarNext]_vars

\* C10: a written text is sent as `VARIABLE 7 "<text, each quote doubled>"`
\* and, once the panel's echo of that command has been dispatched, the
\* Variable's value is the written text again.
C10_TextRoundTrip ==
    /\ tv.pc = "sent" =>
          /\ Len(tv.wire) = 6 + Len(tv.written)
                             + Cardinality({i \in DOMAIN tv.written : tv.written[i] = "\""})
          /\ UndoubleQuotes(Inner(SubSeq(tv.wire, 5, Len(tv.wire)))) = tv.written
    /\ tv.pc = "echoed" => tv.value = tv.written


(***************************************************************************)
(* SpecLive: the transport (VantageConnection) with its worker thread, the *)
(* panel and the network as environment, a caller thread reading `level`   *)
(* of an Output and callers sending other commands.  lv.events tells       *)
(* whether the Output's correlator holds an event, lv.isSet whether the    *)
(* reader's own event is set.                                              *)
(***************************************************************************)
LiveInit ==
    /\ lv = LiveNew
    /\ tv = VarNew
    /\ hk = HkNew
    /\ qv = QueryNew
    /\ s3 = Shade3New
    /\ dz = DirtyNew
    /\ CorrIdle
    /\ RegIdle
    /\ ParseIdle
    /\ RunIdle

Unconnected(l) == {i \in Conns : ~l.connected[i]}
FirstUnconnected(l) == CHOOSE i \in Unconnected(l) : \A j \in Unconnected(l) : i <= j
\* all(self._connected)
AllConnected(l) == \A i \in Conns : l.connected[i]
\* Thread.is_alive()
IsAlive(l) == l.wpc \notin {"new", "dead"}

\* the panel becomes unreachable for new connections, or reachable again
PanelChange ==
    /\ lv' = [lv EXCEPT !.panel = IF @ = "up" THEN "down" ELSE "up"]
    /\ UNCHANGED liveFrame

\* the peer closes connection i: reads return zero bytes from now on
PeerCloses(i) ==
    /\ lv.sockets[i] = "open"
    /\ lv' = [lv EXCEPT !.sockets[i] = "eof"]
    /\ UNCHANGED liveFrame

\* the peer resets connection i: the next read or write fails with
\* ConnectionResetError
PeerResets(i) ==
    /\ lv.sockets[i] = "open"
    /\ lv' = [lv EXCEPT !.sockets[i] = "reset"]
    /\ UNCHANGED liveFrame

\* connect(): raises when connected or when the worker is alive, else it
\* starts the worker and waits; Thread.start() on a dead worker raises
ConnectCall ==
    /\ lv.cpc # "waiting"
    /\ lv' = IF AllConnected(lv) \/ IsAlive(lv)
             THEN [lv EXCEPT !.cc = [alive |-> IsAlive(lv),
                                     res |-> "ConnectionExistsError"]]
             ELSE IF lv.wpc = "dead"
                  THEN [lv EXCEPT !.cc = [alive |-> FALSE, res |-> "RuntimeError"]]
                  ELSE [lv EXCEPT !.wpc = "reconnect", !.cpc = "waiting",
                                  !.cc = [alive |-> FALSE, res |-> "started"]]
    /\ UNCHANGED liveFrame

\* a faulty variant of the wait: it ends as soon as _lock is free
ConnectWaitOverEarly(l) == TRUE
\* connect(): the predicate of `_connect_cond.wait_for`
ConnectWaitOver(l) == AllConnected(l)

\* connect(): `_connect_cond.wait_for(lambda: all(self._connected))` under
\* _lock finds the predicate true
ConnectReturn ==
    /\ lv.cpc = "waiting"
    /\ lv.lock = "free"
    /\ ConnectWaitOver(lv)
    /\ lv' = [lv EXCEPT !.cpc = "returned"]
    /\ UNCHANGED liveFrame

\* a socket select() reports readable without the panel sending a line
Closed(l) == {i \in Conns : l.sockets[i] \in {"eof", "pipe", "reset"}}

\* run(): select() returns because the panel sent lines; they are
\* dispatched (a reply to the level query, if among them, notifies the
\* waiters) and the loop starts over
SelectReadable(reply) ==
    /\ lv.wpc = "select"
    /\ Closed(lv) = {}
    /\ lv' = [lv EXCEPT !.wpc = "reconnect",
                        !.events = IF reply THEN FALSE ELSE @,
                        !.isSet = IF reply /\ lv.events /\ lv.rpc \in {"send", "wait"}
                                  THEN TRUE ELSE @]
    /\ UNCHANGED liveFrame

\* run(): select() returns because of a closed or reset socket (its third
\* list is empty, so no socket is ever `in exceptional`).  recv() on a reset
\* socket raises ConnectionResetError, which run() does not catch: the
\* worker ends.  A zero-length read gives the callback an empty line and
\* the loop starts over.
SelectClosed ==
    /\ lv.wpc = "select"
    /\ Closed(lv) # {}
    /\ lv' = IF \E i \in Conns : lv.sockets[i] = "reset"
             THEN [lv EXCEPT !.wpc = "dead",
                     !.sockets[CHOOSE i \in Conns :
                                  /\ lv.sockets[i] = "reset"
                                  /\ \A j \in Conns : lv.sockets[j] = "reset" => i <= j]
                        = "pipe"]
             ELSE [lv EXCEPT !.wpc = "reconnect", !.zero = TRUE]
    /\ UNCHANGED liveFrame

\* _maybe_reconnect: takes _lock; with every connection connected it
\* releases it at once, else it enters _do_login_locked holding the lock
MaybeReconnect ==
    /\ lv.wpc = "reconnect"
    /\ lv.lock = "free"
    /\ lv' = IF Unconnected(lv) = {} THEN [lv EXCEPT !.wpc = "select"]
             ELSE [lv EXCEPT !.lock = "worker", !.wpc = "login",
                             !.wi = FirstUnconnected(lv)]
    /\ UNCHANGED liveFrame

\* _do_login_locked: what is sent on connection i, in order
StatusCmds == <<"STATUS LOAD", "STATUS BLIND", "STATUS BTN", "STATUS VARIABLE">>
\* a faulty variant: the subscriptions are sent on every connection
HandshakeCmdsAll(i, creds) == (IF creds THEN <<"LOGIN">> ELSE <<>>) \o StatusCmds
\* LOGIN unless user or password is None, the subscriptions `if i == 0`
HandshakeCmds(i, creds) ==
    (IF creds THEN <<"LOGIN">> ELSE <<>>) \o (IF i = 0 THEN StatusCmds ELSE <<>>)
\* the transport of SpecLive is given credentials
LoginCmds(i) == HandshakeCmds(i, TRUE)

\* the state after connection lv.wi has been logged in
LoggedIn(l) ==
    IF Unconnected(l) = {}
    THEN [l EXCEPT !.lock = "free", !.wpc = "select", !.wi = 0]
    ELSE [l EXCEPT !.wi = FirstUnconnected(l)]

\* _do_login_locked: one round of `while True`: the socket is opened and
\* the login and handshake done, or opening fails and it is retried after
\* sleep(3), the lock still held; a reset while the replies are read ends
\* the worker
DoLogin(reset) ==
    /\ lv.wpc = "login"
    /\ lv' = IF lv.panel = "up"
             THEN IF reset
                  THEN [lv EXCEPT !.sockets[lv.wi] = "reset", !.wpc = "dead",
                                  !.lock = "free", !.retry = FALSE]
                  ELSE LoggedIn([lv EXCEPT !.sockets[lv.wi] = "open",
                                           !.connected[lv.wi] = TRUE,
                                           !.hs[lv.wi] = LoginCmds(lv.wi),
                                           !.retry = FALSE,
                                           !.zero = FALSE])
             ELSE [lv EXCEPT !.retry = ~@]
    /\ ~(reset /\ lv.panel = "down")
    /\ UNCHANGED liveFrame

\* the commands callers send, as characters
GetLoadCmd == <<"G", "E", "T", "L", "O", "A", "D">>
LoadCmd == <<"L", "O", "A", "D">>
\* cmd.startswith("GET")
IsGet(cmd) == StartsWith(cmd, <<"G", "E", "T">>)

\* send_ascii_nl: what socket.send does on the socket at the cursor
SendOutcome(l) ==
    CASE l.sockets[l.iconn] = "open" -> "written"
      [] l.sockets[l.iconn] = "eof" -> "lost"
      [] l.sockets[l.iconn] = "pipe" -> "BrokenPipeError"
      [] l.sockets[l.iconn] = "reset" -> "ConnectionResetError"
      [] OTHER -> "AttributeError"
\* a faulty variant of the cursor rule: every command advances the cursor
AdvanceAlways(l, cmd) == (l.iconn + 1) % NumConnections
\* send_ascii_nl: `if not cmd.startswith("GET"): self._iconn = ...`
Advance(l, cmd) == IF IsGet(cmd) THEN l.iconn ELSE (l.iconn + 1) % NumConnections

\* send_ascii_nl with _lock free.  Only BrokenPipeError is caught (the
\* connection is marked unconnected); any other error leaves `with` at
\* once, the cursor where it was.  A write after the peer closed is
\* accepted by the socket and answered with a reset.
Sending(l, cmd) ==
    LET out == SendOutcome(l)
        l1 == [l EXCEPT !.ls = [conn |-> l.iconn, get |-> IsGet(cmd), out |-> out]]
    IN CASE out = "written" -> [l1 EXCEPT !.iconn = Advance(l, cmd)]
         [] out = "lost" -> [l1 EXCEPT !.sockets[l.iconn] = "pipe",
                                       !.iconn = Advance(l, cmd)]
         [] out = "BrokenPipeError" -> [l1 EXCEPT !.connected[l.iconn] = FALSE,
                                                  !.iconn = Advance(l, cmd)]
         [] out = "ConnectionResetError" -> [l1 EXCEPT !.sockets[l.iconn] = "pipe"]
         [] OTHER -> l1

\* a caller thread sends a command that is not a GET (a level write)
CallerSend ==
    /\ lv.lock = "free"
    /\ lv' = Sending(lv, LoadCmd)
    /\ UNCHANGED liveFrame

\* _get_level -> request(): the event is registered; the first waiter goes
\* on to send the query
LevelRequest ==
    /\ lv.rpc \in {"idle", "raised"}
    /\ lv' = [lv EXCEPT !.rpc = IF lv.events THEN "wait" ELSE "send",
                        !.events = TRUE, !.isSet = FALSE]
    /\ UNCHANGED liveFrame

\* request(): action() -> send_cmd("GETLOAD ...") -> send_ascii_nl, which
\* needs _lock
LevelQuery ==
    /\ lv.rpc = "send"
    /\ lv.lock = "free"
    /\ lv' = [Sending(lv, GetLoadCmd) EXCEPT
                !.rpc = IF SendOutcome(lv) \in {"AttributeError", "ConnectionResetError"}
                        THEN "raised" ELSE "wait"]
    /\ UNCHANGED liveFrame

\* ev.wait(0.03) is over (event set, or timeout); _level is returned
LevelReturn ==
    /\ lv.rpc = "wait"
    /\ lv' = [lv EXCEPT !.rpc = "idle", !.isSet = FALSE]
    /\ UNCHANGED liveFrame

WorkerStep == SelectClosed \/ MaybeReconnect \/ \E reset \in BOOLEAN : DoLogin(reset)
ReaderStep == LevelQuery \/ LevelReturn

LiveNext ==
    \/ PanelChange
    \/ \E i \in Conns : PeerCloses(i) \/ PeerResets(i)
    \/ ConnectCall
    \/ ConnectReturn
    \/ \E reply \in BOOLEAN : SelectReadable(reply)
    \/ WorkerStep
    \/ CallerSend
    \/ LevelRequest
    \/ ReaderStep

\* the threads keep running, and a caller gets _lock if it is free again
\* and again; the panel and the network owe nothing
SpecLive ==
    /\ LiveInit /\ [][LiveNext]_vars
    /\ WF_vars(WorkerStep) /\ SF_vars(ReaderStep) /\ SF_vars(ConnectReturn)

(***************************************************************************)
(* SpecWire: the lines on the sockets.  The worker thread logs each        *)
(* connection in (_do_login_locked, one step per send and per read) and    *)
(* then reads in run(); the panel answers commands and pushes status       *)
(* lines.  A line is [src, n, re]: the connection the panel wrote it to,   *)
(* its number among all lines written, and the command it answers ("S"     *)
(* for a status line).  _chunk is shared by all connections.               *)
(***************************************************************************)
\* status lines the panel pushes, reads of the handshake that end by the
\* 2 s timeout and connections lost and logged in again, taken together
MaxEvents == 2
MayHappen(h) == h.pushes + h.timeouts + h.logins < MaxEvents

WireInit ==
    /\ \E c \in BOOLEAN : hk = [HkNew EXCEPT !.creds = c, !.pc = "reconnect"]
    /\ lv = LiveNew
    /\ tv = VarNew
    /\ qv = QueryNew
    /\ s3 = Shade3New
    /\ dz = DirtyNew
    /\ CorrIdle
    /\ RegIdle
    /\ ParseIdle
    /\ RunIdle

LowestNeed(h) == CHOOSE j \in h.need : \A m \in h.need : j <= m

\* _maybe_reconnect: the next connection that is not connected, or on to
\* select() when there is none
WireReconnect ==
    /\ hk.pc = "reconnect"
    /\ hk' = IF hk.need = {} THEN [hk EXCEPT !.pc = "select"]
             ELSE [hk EXCEPT !.pc = "open", !.i = LowestNeed(hk)]
    /\ UNCHANGED wireFrame

\* _maybe_reconnect line 377: `self._connected[i] = True`
LoginOver(h) == [h EXCEPT !.need = @ \ {h.i}, !.pc = "reconnect", !.k = 0]

\* _do_login_locked lines 322-337: a new socket is connected; _chunk keeps
\* what it holds
LoginOpen ==
    /\ hk.pc = "open"
    /\ hk' = IF HandshakeCmds(hk.i, hk.creds) = <<>>
             THEN LoginOver([hk EXCEPT !.open[hk.i] = TRUE, !.trace[hk.i] = <<>>,
                                       !.unans[hk.i] = <<>>, !.wire[hk.i] = <<>>])
             ELSE [hk EXCEPT !.open[hk.i] = TRUE, !.trace[hk.i] = <<>>,
                             !.unans[hk.i] = <<>>, !.wire[hk.i] = <<>>,
                             !.pc = "send", !.k = 1]
    /\ UNCHANGED wireFrame

\* _do_login_locked: one _send_ascii_nl_locked of the handshake
LoginSend ==
    /\ hk.pc = "send"
    /\ hk' = [hk EXCEPT
                !.trace[hk.i] = Append(@, <<"send", HandshakeCmds(hk.i, hk.creds)[hk.k]>>),
                !.unans[hk.i] = Append(@, HandshakeCmds(hk.i, hk.creds)[hk.k]),
                !.pc = "read"]
    /\ UNCHANGED wireFrame

\* _read_until(b'\r\n', i) when n lines are taken from the socket by recv:
\* a line that _chunk holds already is returned without recv (n = 0); with
\* nothing to receive the socket's timeout ends the read without a line.
\* The result is the line returned (<<>> for none) and the buffer left.
ReadUntil(h, i, n) ==
    IF h.chunk # <<>> THEN [line |-> <<Head(h.chunk)>>, chunk |-> Tail(h.chunk), n |-> 0]
    ELSE IF n = 0 THEN [line |-> <<>>, chunk |-> <<>>, n |-> 0]
    ELSE [line |-> <<h.wire[i][1]>>, chunk |-> SubSeq(h.wire[i], 2, n), n |-> n]
\* how many lines one recv may take from socket i
RecvCounts(h, i) == IF h.wire[i] = <<>> \/ h.chunk # <<>> THEN {0} ELSE 1..Len(h.wire[i])
\* the state of the wire after a read with result r on socket i
AfterRead(h, i, r) ==
    [h EXCEPT !.chunk = r.chunk, !.wire[i] = DropFirst(@, r.n)]

\* what the handshake goes on with after a read
LoginNext(h) ==
    IF h.k < Len(HandshakeCmds(h.i, h.creds))
    THEN [h EXCEPT !.pc = "send", !.k = @ + 1]
    ELSE LoginOver(h)

\* _do_login_locked: one _read_until after a command of the handshake
LoginReadStep(r) ==
    /\ r.line = <<>> => MayHappen(hk)
    /\ hk' = LoginNext([AfterRead(hk, hk.i, r) EXCEPT
                          !.trace[hk.i] = Append(@, <<"read", r.line>>),
                          !.timeouts = IF r.line = <<>> THEN @ + 1 ELSE @])
    /\ UNCHANGED wireFrame

LoginRead ==
    /\ hk.pc = "read"
    /\ \E n \in RecvCounts(hk, hk.i) : LoginReadStep(ReadUntil(hk, hk.i, n))

\* the panel answers the oldest command it has on connection j
PanelReply(j) ==
    /\ hk.open[j]
    /\ hk.unans[j] # <<>>
    /\ hk' = [hk EXCEPT !.unans[j] = Tail(@), !.lines = @ + 1,
                        !.wire[j] = Append(@, [src |-> j, n |-> hk.lines + 1,
                                               typ |-> "R",
                                               re |-> Head(hk.unans[j])])]
    /\ UNCHANGED wireFrame

\* the panel pushes a status line on connection j
PanelPush(j) ==
    /\ hk.open[j]
    /\ MayHappen(hk)
    /\ hk' = [hk EXCEPT !.pushes = @ + 1, !.lines = @ + 1,
                        !.wire[j] = Append(@, [src |-> j, n |-> hk.lines + 1,
                                               typ |-> "S", re |-> "S"])]
    /\ UNCHANGED wireFrame

\* _recv lines 1243-1249: a line that begins with R takes the oldest
\* pending command, "__UNDERFLOW__" when there is none
Underflow == [op |-> "__UNDERFLOW__", by |-> "", n |-> 0]
ThisCmd(h, line) ==
    IF line[1].typ = "S" THEN <<>>
    ELSE IF h.fifo # <<>> THEN <<Head(h.fifo)>> ELSE <<Underflow>>
PopLeft(h, line) ==
    IF line[1].typ = "S" \/ h.fifo = <<>> THEN h.fifo ELSE Tail(h.fifo)

\* run() lines 394-400: the callback, Vantage._recv, gets the line and the
\* index i
RunReadStep(i, r) ==
    /\ hk' = [AfterRead(hk, i, r) EXCEPT
                !.got = Append(@, [conn |-> i, line |-> r.line,
                                   cmd |-> ThisCmd(hk, r.line)]),
                !.fifo = PopLeft(hk, r.line),
                !.pc = "reconnect"]
    /\ UNCHANGED wireFrame

\* run(): select() returned socket i as readable, one _read_until on it
RunRead(i) ==
    /\ hk.pc = "select"
    /\ hk.wire[i] # <<>>
    /\ \E n \in RecvCounts(hk, i) : RunReadStep(i, ReadUntil(hk, i, n))

\* connection j is marked unconnected (a send on it failed); the worker
\* logs it in again when select() has returned
ConnLost(j) ==
    /\ hk.pc = "select"
    /\ MayHappen(hk)
    /\ hk' = [hk EXCEPT !.need = {j}, !.logins = @ + 1, !.pc = "reconnect"]
    /\ UNCHANGED wireFrame

WorkerWire ==
    \/ WireReconnect \/ LoginOpen \/ LoginSend \/ LoginRead
    \/ \E i \in Conns : RunRead(i)
WireNext ==
    \/ WorkerWire
    \/ \E j \in Conns : PanelReply(j) \/ PanelPush(j) \/ ConnLost(j)

SpecWire == WireInit /\ [][WireNext]_vars

(***************************************************************************)
(* SpecFifo: the pending commands.  Every connection is logged in and the  *)
(* worker reads in run(); two caller threads call send_cmd, the panel      *)
(* answers each command on the connection it came on.                      *)
(***************************************************************************)
MaxSends == 2         \* calls of send_cmd

FifoInit ==
    /\ hk = [HkNew EXCEPT !.pc = "select", !.need = {},
                          !.open = [j \in Conns |-> TRUE]]
    /\ lv = LiveNew
    /\ tv = VarNew
    /\ qv = QueryNew
    /\ s3 = Shade3New
    /\ dz = DirtyNew
    /\ CorrIdle
    /\ RegIdle
    /\ ParseIdle
    /\ RunIdle

\* send_cmd line 1336: `self._cmds.append(cmd)`; a command is its text, the
\* caller and its number among the calls
SendAppend(c, op) ==
    /\ hk.cs[c] = <<>>
    /\ Len(hk.app) < MaxSends
    /\ hk' = [hk EXCEPT
                !.fifo = Append(@, [op |-> op, by |-> c, n |-> Len(hk.app) + 1]),
                !.app = Append(@, [op |-> op, by |-> c, n |-> Len(hk.app) + 1]),
                !.cs[c] = <<[op |-> op, by |-> c, n |-> Len(hk.app) + 1]>>]
    /\ UNCHANGED wireFrame

\* send_cmd line 1337: send_ascii_nl writes the command to the connection
\* at the cursor and moves the cursor unless the command begins with GET
SendWrite(c) ==
    /\ hk.cs[c] # <<>>
    /\ hk' = [hk EXCEPT
                !.written = Append(@, [cmd |-> hk.cs[c][1], conn |-> hk.iconn]),
                !.unans[hk.iconn] = Append(@, hk.cs[c][1]),
                !.iconn = IF hk.cs[c][1].op = "GETLOAD" THEN @
                          ELSE (@ + 1) % NumConnections,
                !.cs[c] = <<>>]
    /\ UNCHANGED wireFrame

FifoNext ==
    \/ \E c \in Senders, op \in {"GETLOAD", "LOAD"} : SendAppend(c, op)
    \/ \E c \in Senders : SendWrite(c)
    \/ \E j \in Conns : PanelReply(j) \/ PanelPush(j)
    \/ \E i \in Conns : RunRead(i)
    \/ WireReconnect

SpecFifo == FifoInit /\ [][FifoNext]_vars

(***************************************************************************)
(* SpecQuery: two caller threads read `level` of one Output while the      *)
(* worker thread dispatches level reports to it.  _RequestHelper.request   *)
(* holds its lock for the test and the append only; the action runs        *)
(* outside of it, statement by statement.                                  *)
(***************************************************************************)
MaxReads == 3         \* reads of `level` begun, over both callers

QueryInit ==
    /\ \E c \in BOOLEAN : qv = [QueryNew EXCEPT !.color = c]
    /\ s3 = Shade3New
    /\ dz = DirtyNew
    /\ tv = VarNew
    /\ lv = LiveNew
    /\ hk = HkNew
    /\ CorrIdle
    /\ RegIdle
    /\ ParseIdle
    /\ RunIdle

\* request lines 1548-1557: under the lock `first` is taken and the event
\* appended; the first caller goes on to the action
QueryRequest(t) ==
    /\ qv.pc[t] = "idle"
    /\ qv.reads < MaxReads
    /\ qv' = [qv EXCEPT !.events = @ + 1, !.reads = @ + 1,
                        !.pc[t] = IF qv.events = 0 THEN "test" ELSE "wait"]
    /\ UNCHANGED queryFrame

\* __do_query_level line 1881: `if self.support_color and not self._addedstatus`
QueryTest(t) ==
    /\ qv.pc[t] = "test"
    /\ qv' = [qv EXCEPT !.pc[t] = IF qv.color /\ ~qv.added THEN "add" ELSE "get"]
    /\ UNCHANGED queryFrame

\* line 1882: `self._vantage.send("ADDSTATUS", self._vid)`
QueryAdd(t) ==
    /\ qv.pc[t] = "add"
    /\ qv' = [qv EXCEPT !.sent = Append(@, "ADDSTATUS"), !.pc[t] = "flag"]
    /\ UNCHANGED queryFrame

\* line 1883: `self._addedstatus = True`
QueryFlag(t) ==
    /\ qv.pc[t] = "flag"
    /\ qv' = [qv EXCEPT !.added = TRUE, !.pc[t] = "get"]
    /\ UNCHANGED queryFrame

\* line 1885: `self._vantage.send("GETLOAD", self._vid)`
QueryGet(t) ==
    /\ qv.pc[t] = "get"
    /\ qv' = [qv EXCEPT !.sent = Append(@, "GETLOAD"), !.pc[t] = "wait"]
    /\ UNCHANGED queryFrame

\* _get_level lines 1906-1907: ev.wait returns, the event set or not
QueryReturn(t) ==
    /\ qv.pc[t] = "wait"
    /\ qv' = [qv EXCEPT !.pc[t] = "idle"]
    /\ UNCHANGED queryFrame

\* the worker thread: handle_update -> _query_waiters.notify() empties the
\* list of events
QueryNotify ==
    /\ qv.events > 0
    /\ qv' = [qv EXCEPT !.events = 0]
    /\ UNCHANGED queryFrame

QueryNext ==
    \/ \E t \in Readers :
          \/ QueryRequest(t)
          \/ QueryTest(t)
          \/ QueryAdd(t)
          \/ QueryFlag(t)
          \/ QueryGet(t)
          \/ QueryReturn(t)
    \/ QueryNotify

SpecQuery == QueryInit /\ [][QueryNext]_vars

(***************************************************************************)
(* SpecShade3: two caller threads call open(), close() and stop() on one   *)
(* Shade3 with the open relay 10, the close relay 11, optionally the stop  *)
(* relay 12 and the is-open contact 13, while the worker thread dispatches *)
(* the panel's LOAD lines for the relays and BTN lines for the contact.    *)
(***************************************************************************)
MaxPulses == 3        \* calls of open(), close() and stop(), over both callers
\* the ids of the open and the close relay
Relays == [open |-> 10, close |-> 11]
StopVids == {0, 12}
ContactVids == {0, 13}

\* the entity _ids['BTN'] holds for the is-open contact: a parse registers
\* the Shade3 there and then the contact's own Button in its place (the
\* contact is not in vid_to_shade, and register_id refuses no BTN id); a
\* Shade3 constructed by hand stays registered
ContactRoute(isopenVid, parsed) ==
    IF isopenVid = 0 THEN "none" ELSE IF parsed THEN "Button" ELSE "Shade3"

Shade3Init ==
    /\ \E io \in ContactVids, st \in StopVids, parsed \in BOOLEAN :
          s3 = [Shade3New EXCEPT !.isopenVid = io, !.stopVid = st,
                                 !.route = ContactRoute(io, parsed)]
    /\ dz = DirtyNew
    /\ tv = VarNew
    /\ lv = LiveNew
    /\ hk = HkNew
    /\ qv = QueryNew
    /\ CorrIdle
    /\ RegIdle
    /\ ParseIdle
    /\ RunIdle

\* the relay of open(), close() and stop()
RelayOf(h, op) ==
    CASE op = "open" -> Relays.open [] op = "close" -> Relays.close [] OTHER -> h.stopVid

\* open() / close() / stop() up to the end of request's locked part: the
\* event is appended, and the first requester goes on to the action;
\* stop() without a stop relay only logs a warning
Shade3Call(t, op) ==
    /\ s3.pc[t] = "idle"
    /\ Len(s3.done) + Cardinality({u \in Readers : s3.pc[u] # "idle"}) < MaxPulses
    /\ op = "stop" => s3.stopVid # 0
    /\ s3' = [s3 EXCEPT !.events = @ + 1,
                        !.pc[t] = IF s3.events = 0 THEN "start" ELSE "wait",
                        !.call[t] = <<[op |-> op, relay |-> RelayOf(s3, op), hi |-> 0]>>,
                        !.last = <<"call">>]
    /\ UNCHANGED shade3Frame

\* request: `if first: action()` -> _do_start_open / _close / _stop
Shade3Start(t) ==
    /\ s3.pc[t] = "start"
    /\ s3' = [s3 EXCEPT !.sent = Append(@, <<s3.call[t][1].relay, "100">>),
                        !.call[t][1].hi = Len(s3.sent) + 1,
                        !.pc[t] = "wait", !.last = <<"start">>]
    /\ UNCHANGED shade3Frame

\* the optimistic value of _is_open after open() and close()
Optimistic(h, op) ==
    IF h.isopenVid # 0 \/ op = "stop" THEN h.isOpen
    ELSE IF op = "open" THEN "True" ELSE "False"

\* ev.wait(0.5) returns, the event set or not; LOAD <relay> 0 is sent and
\* _is_open is set when there is no is-open contact
Shade3Finish(t) ==
    /\ s3.pc[t] = "wait"
    /\ s3' = [s3 EXCEPT !.sent = Append(@, <<s3.call[t][1].relay, "0">>),
                        !.isOpen = Optimistic(s3, s3.call[t][1].op),
                        !.done = Append(@, [op |-> s3.call[t][1].op,
                                            relay |-> s3.call[t][1].relay,
                                            hi |-> s3.call[t][1].hi,
                                            lo |-> Len(s3.sent) + 1,
                                            was |-> s3.isOpen]),
                        !.call[t] = <<>>, !.pc[t] = "idle",
                        !.last = <<"finish", s3.call[t][1].op, s3.isOpen>>]
    /\ UNCHANGED shade3Frame

\* Shade3.handle_update for one of the relays: notify()
Shade3RelayReport(vid) ==
    /\ vid # 0
    /\ s3' = [s3 EXCEPT !.events = 0, !.last = <<"relay", vid>>]
    /\ UNCHANGED shade3Frame

\* a BTN line for the is-open contact, dispatched to the entity registered
\* for it: Shade3.handle_update sets _is_open and notifies, the contact's
\* Button rewrites PRESS and RELEASE to its own value
Shade3ContactReport(action) ==
    /\ s3.route # "none"
    /\ s3' = IF s3.route = "Shade3"
             THEN [s3 EXCEPT !.isOpen = CASE action = "PRESS" -> "True"
                                          [] action = "RELEASE" -> "False"
                                          [] OTHER -> @,
                             !.events = 0, !.last = <<"contact", action>>]
             ELSE [s3 EXCEPT !.button = CASE action = "PRESS" -> "Violated"
                                          [] action = "RELEASE" -> "Normal"
                                          [] OTHER -> action,
                             !.last = <<"contact", action>>]
    /\ UNCHANGED shade3Frame

Shade3Next ==
    \/ \E t \in Readers, op \in {"open", "close", "stop"} : Shade3Call(t, op)
    \/ \E t \in Readers : Shade3Start(t)
    \/ \E t \in Readers : Shade3Finish(t)
    \/ \E vid \in {Relays.open, Relays.close, s3.stopVid} : Shade3RelayReport(vid)
    \/ \E action \in {"PRESS", "RELEASE"} : Shade3ContactReport(action)

SpecShade3 == Shade3Init /\ [][Shade3Next]_vars

(***************************************************************************)
(* SpecDirty: the rgb, hs and level setters of one DMX colour Output       *)
(* called from two caller threads, and handle_update called from the       *)
(* worker thread, taken statement by statement (the interpreter switches   *)
(* threads between any two of them).  A command is written to a link that  *)
(* the panel may reset: the first write after the reset raises             *)
(* ConnectionResetError, which ends the setter (in the worker it is caught *)
(* by run() and ends the handler); later writes fail with a broken pipe,   *)
(* which send_ascii_nl absorbs.                                            *)
(***************************************************************************)
MaxOps == 3                 \* setter and handler calls in one run
Tints == {0, 1}             \* the colours written; 0 is the initial [0, 0, 0]
Brightness == {0, 500}      \* 0.0 and 50.0 percent

DirtyInit ==
    /\ dz = DirtyNew
    /\ tv = VarNew
    /\ lv = LiveNew
    /\ hk = HkNew
    /\ qv = QueryNew
    /\ s3 = Shade3New
    /\ CorrIdle
    /\ RegIdle
    /\ ParseIdle
    /\ RunIdle

\* thread t moves on to statement pc
Goto(d, t, pc) == [d EXCEPT !.pc[t] = pc]
\* a setter or handler is entered by thread t
Enter(d, t, pc, x) ==
    [d EXCEPT !.pc[t] = pc, !.arg[t] = x, !.ret[t] = "idle", !.ops = @ + 1]
CanEnter(t) == dz.pc[t] = "idle" /\ dz.ops < MaxOps
\* `self._vantage.send(...)` by thread t, which goes on at pc if the
\* write does not raise
SendOr(d, t, cmd, pc) ==
    IF d.link = "reset"
    THEN [d EXCEPT !.link = "pipe", !.pc[t] = "idle", !.raised = TRUE]
    ELSE [d EXCEPT !.sent = IF d.link = "up" THEN cmd ELSE @, !.pc[t] = pc]

\* the panel resets the connection
LinkResets ==
    /\ dz.link = "up"
    /\ dz' = [dz EXCEPT !.link = "reset"]
    /\ UNCHANGED dirtyFrame

\* a caller thread: `output.rgb = x`, `output.hs = x`, `output.level = L`;
\* the worker thread: handle_update([L], None)
RgbCall(t, x) ==
    /\ CanEnter(t)
    /\ dz' = Enter(dz, t, "rgb_cmp", x)
    /\ UNCHANGED dirtyFrame
HsCall(t, x) ==
    /\ CanEnter(t)
    /\ dz' = Enter(dz, t, "hs_cmp", x)
    /\ UNCHANGED dirtyFrame
LevelCall(t, L) ==
    /\ CanEnter(t)
    /\ dz' = Enter(dz, t, "lvl_cmp", L)
    /\ UNCHANGED dirtyFrame
UpdateCall(L) ==
    /\ CanEnter("w")
    /\ dz' = Enter(dz, "w", "upd_store", L)
    /\ UNCHANGED dirtyFrame

\* one statement of thread t
Statement(d, t) ==
    LET pc == d.pc[t]
    IN CASE pc = "rgb_cmp" ->     \* if self._rgb == new_rgb:
              Goto(d, t, IF d.rgb = d.arg[t] THEN "rgb_same" ELSE "rgb_store")
         [] pc = "rgb_same" ->    \* if self._rgb_is_dirty: self._invoke_rgb(); return
              Goto(d, t, IF d.dirty THEN "inv_rgb" ELSE "idle")
         [] pc = "rgb_store" ->   \* self._hs = ...; self._rgb = new_rgb
              [d EXCEPT !.hs = d.arg[t], !.rgb = d.arg[t], !.pc[t] = "rgb_mark"]
         [] pc = "rgb_mark" ->    \* self._rgb_is_dirty = True
              [d EXCEPT !.dirty = TRUE, !.pc[t] = "rgb_test"]
         [] pc = "rgb_test" ->    \* if self._level > 0: _invoke_rgb else _invoke_hs
              Goto(d, t, IF d.level > 0 THEN "inv_rgb" ELSE "inv_hs")
         [] pc = "hs_cmp" ->      \* if self._hs == new_hs: return
              Goto(d, t, IF d.hs = d.arg[t] THEN "idle" ELSE "hs_store")
         [] pc = "hs_store" ->    \* self._hs = new_hs; self._rgb = ...
              [d EXCEPT !.hs = d.arg[t], !.rgb = d.arg[t], !.pc[t] = "inv_hs"]
         [] pc = "inv_rgb" ->     \* send("INVOKE", vid, "RGBLoad.SetRGBW ...")
              SendOr(d, t, "SetRGBW", "inv_ramp")
         [] pc = "inv_hs" ->      \* send("INVOKE", vid, "RGBLoad.SetHSL ...")
              SendOr(d, t, "SetHSL", "inv_ramp")
         [] pc = "inv_ramp" ->    \* if self._dmx_color and self._level > 0: send
              IF d.level > 0 THEN SendOr(d, t, "RAMPLOAD 0.1", "inv_test")
              ELSE Goto(d, t, "inv_test")
         [] pc = "inv_test" ->    \* if self._level > 0:
              Goto(d, t, IF d.level > 0 THEN "inv_clear" ELSE d.ret[t])
         [] pc = "inv_clear" ->   \* self._rgb_is_dirty = False
              [d EXCEPT !.dirty = FALSE, !.pc[t] = d.ret[t]]
         [] pc = "lvl_cmp" ->     \* if self._level == new_level: return
              Goto(d, t, IF d.level = d.arg[t] THEN "idle" ELSE "lvl_store")
         [] pc = "lvl_store" ->   \* self._level = new_level
              [d EXCEPT !.level = d.arg[t], !.pc[t] = "lvl_test"]
         [] pc = "lvl_test" ->    \* if self._rgb_is_dirty: self._invoke_rgb()
              IF d.dirty THEN [d EXCEPT !.pc[t] = "inv_rgb", !.ret[t] = "lvl_send"]
              ELSE Goto(d, t, "lvl_send")
         [] pc = "lvl_send" ->    \* send("RAMPLOAD", vid, round(new_level), ramp_sec)
              [SendOr(d, t, "RAMPLOAD", "idle") EXCEPT !.ret[t] = "idle"]
         [] pc = "upd_store" ->   \* self._level = level
              [d EXCEPT !.level = d.arg[t], !.pc[t] = "upd_test"]
         [] pc = "upd_test" ->    \* if level > 0 and self._rgb_is_dirty: _invoke_rgb
              IF d.arg[t] > 0 /\ d.dirty
              THEN [d EXCEPT !.pc[t] = "inv_rgb", !.ret[t] = "upd_notify"]
              ELSE Goto(d, t, "upd_notify")
         [] pc = "upd_notify" ->  \* self._query_waiters.notify()
              [d EXCEPT !.pc[t] = "idle", !.ret[t] = "idle"]

Step(t) ==
    /\ dz.pc[t] # "idle"
    /\ dz' = Statement(dz, t)
    /\ UNCHANGED dirtyFrame

DirtyNext ==
    \/ \E t \in Readers, x \in Tints : RgbCall(t, x)
    \/ \E t \in Readers, x \in Tints : HsCall(t, x)
    \/ \E t \in Readers, L \in Brightness : LevelCall(t, L)
    \/ \E L \in Brightness : UpdateCall(L)
    \/ \E t \in Threads : Step(t)
    \/ LinkResets

SpecDirty == DirtyInit /\ [][DirtyNext]_vars


\* C4: a `level` read that has started (its getter is about to send the
\* query, or waits for the reply) eventually returns to its caller with the
\* cached level, whatever happens to the connections.
C4_LevelReadTerminates == (lv.rpc \in {"send", "wait"}) ~> (lv.rpc = "idle")


\* the devices a configuration offers for the shade opened by load `open`
GroupOf(c, open) ==
    [open |-> open,
     closes |-> FindByName(c.loads, ReplaceKeepCase(CloseWord, open.name)),
     stops |-> FindByName(c.loads, ReplaceKeepCase(StopWord, open.name)),
     isopens |-> FindByName(c.contacts, ReplaceKeepCase(IsOpenWord, open.name))]
GroupMembers(g) == Range(g.closes) \cup Range(g.stops) \cup Range(g.isopens)
\* groups with one close load; same-area ones are the claim C7's groups,
\* the others the claim C8's
Groups(c) == {GroupOf(c, l) : l \in {x \in Range(c.loads) : EndsWithOpen(x.name)}}
SameAreaGroups(c) ==
    {g \in Groups(c) : /\ Len(g.closes) = 1 /\ Len(g.stops) <= 1
                       /\ \A m \in GroupMembers(g) : m.area = g.open.area}
MismatchedGroups(c) ==
    {g \in Groups(c) : /\ Len(g.closes) = 1 /\ Len(g.stops) <= 1
                       /\ \E m \in GroupMembers(g) : m.area # g.open.area}
GroupIds(g) == {g.open.vid} \cup {m.vid : m \in GroupMembers(g)}
Shade3sHolding(r, ids) ==
    {o \in DOMAIN r.objs : r.objs[o].cls = "Shade3" /\ ids \subseteq Range(r.objs[o].vids)}
Standalone(r, q, ids) ==
    {o \in Range(q.outputs) \cup Range(q.buttons) :
        r.objs[o].cls \in {"Output", "Button"} /\ r.objs[o].vid \in ids}

\* C7: once the configuration is parsed, every same-area group "X Open" /
\* "X Close" / optional "X Stop" / optional contact "X Is Open" has exactly
\* one Shade3 holding all its ids, each id is routed (loads under LOAD, the
\* contact under BTN) to that Shade3, and no standalone Output or Button
\* was made for any of the ids.
C7_ShadeAssembly ==
    ps.pc = "done" =>
        \A g \in SameAreaGroups(cfg) :
            /\ Cardinality(Shade3sHolding(reg, GroupIds(g))) = 1
            /\ \A o \in Shade3sHolding(reg, GroupIds(g)) :
                  /\ Routed(reg, "LOAD", g.open.vid) = o
                  /\ \A m \in Range(g.closes) \cup Range(g.stops) :
                        Routed(reg, "LOAD", m.vid) = o
                  /\ \A m \in Range(g.isopens) : Routed(reg, "BTN", m.vid) = o
            /\ Standalone(reg, ps, GroupIds(g)) = {}

\* C8: with a group whose close, stop or is-open device lies in another area
\* than its open load, parsing does not abort; when it is done there is no
\* Shade3 for the group, a warning was recorded, and the other entities of
\* the configuration (the lamp) were produced.
C8_MismatchRejectedParseCompletes ==
    \A g \in MismatchedGroups(cfg) :
        /\ ps.pc # "failed"
        /\ ps.pc = "done" =>
              /\ Shade3sHolding(reg, {g.open.vid}) = {}
              /\ <<"areas do not match", g.open.vid>> \in ps.warns
              /\ Routed(reg, "LOAD", Lamp.vid) \in Range(ps.outputs)


\* Output.support_color and Output.support_color_temp (0 stands for None)
SupportColor(obj) == obj.dmx
SupportColorTemp(obj) ==
    obj.ccvid # 0 \/ obj.ltype = "DW" \/ StartsWithRgb(obj.ltype)
ChannelSet(ld, i) == ld.chans[i] # <<>> /\ Populated(ld.chans[i])
\* the Outputs the parse produced for the load element ld
OutputsFor(r, q, ld) ==
    {o \in Range(q.outputs) : r.objs[o].cls = "Output" /\ r.objs[o].vid = ld.vid}

\* C11: once the configuration is parsed, the Output of every load whose
\* type begins "RGB" is full-colour exactly when its Channel2 is populated,
\* and with only Channel1 and Channel3 populated it is dynamic white: no
\* colour support, colour-temperature support.
C11_DmxClassification ==
    ps.pc = "done" =>
        \A ld \in Range(cfg.loads) : \A o \in OutputsFor(reg, ps, ld) :
            StartsWithRgb(ld.ltype) =>
                /\ SupportColor(reg.objs[o]) <=> ChannelSet(ld, 2)
                /\ (ChannelSet(ld, 1) /\ ChannelSet(ld, 3) /\ ~ChannelSet(ld, 2)) =>
                       (~SupportColor(reg.objs[o]) /\ SupportColorTemp(reg.objs[o]))


\* the level command `_set_level` sends for Output v and level L
LevelCommand(v, L) ==
    [op |-> IF IsDimmable(v) THEN "RAMPLOAD" ELSE "LOAD", vid |-> v,
     args |-> IF IsDimmable(v)
              THEN <<ToString(PyRound(L)), outs[v].ramp[IF L = 0 THEN 2 ELSE 1]>>
              ELSE <<ToString(PyRound(L))>>]

\* C1 (as stated): after the dispatch of a LOAD line for an Output of any
\* kind, the Output's cached level is the line's level and its waiters are
\* released; a getter that was waiting on it returns the line's level.
C1_UpdateAnyKind ==
    /\ last.op = "recv" =>
          /\ outs[last.vid].level = last.level
          /\ outs[last.vid].events = <<>>
          /\ (rd.pc \in {"action", "waiting"} /\ rd.on = last.vid) => rd.isSet
    /\ (last.op = "read" /\ last.after[1] = "recv") =>
          last.isSet /\ last.level = last.after[2]

\* C1 (amended): after the dispatch of a LOAD line for an Output of a kind
\* other than COLOR, the Output's cached level is the line's level, its own
\* correlator holds no waiter, and a getter registered on it has its event
\* set; if that getter returns right after the dispatch, it returns the
\* line's level.
C1_UpdateNonColor ==
    /\ (last.op = "recv" /\ topo[last.vid].kind # "COLOR") =>
          /\ outs[last.vid].level = last.level
          /\ outs[last.vid].events = <<>>
          /\ (rd.pc \in {"action", "waiting"} /\ rd.on = last.vid) => rd.isSet
    /\ (last.op = "read" /\ last.after[1] = "recv"
        /\ topo[last.on].kind # "COLOR") =>
          last.isSet /\ last.level = last.after[2]

\* C1 witness: a getter that was waiting has been released by the dispatch
\* of a line with level 33.5 and has returned 33.5
C1_Witness ==
    /\ last.op = "read" /\ last.isSet
    /\ last.after = <<"recv", 335>> /\ last.level = 335
    /\ topo[last.on].kind # "COLOR"

\* C9 (as stated): a write of the level of a group with a brightness
\* delegate A sets A's cached level and sends A's level command (when A's
\* level differed), and neither writes a group-local level nor sends a
\* command for the group; a read returns A's level.
C9_NoGroupLocalLevel ==
    /\ (last.op = "set" /\ BrightnessVid(last.vid) # 0) =>
          /\ outs[BrightnessVid(last.vid)].level = last.level
          /\ last.preB # last.level =>
                LevelCommand(BrightnessVid(last.vid), last.level) \in Range(sent)
          /\ outs[last.vid].level = last.pre
          /\ \A c \in Range(sent) : c.vid # last.vid
    /\ (last.op = "read" /\ BrightnessVid(last.vid) # 0) =>
          last.level = outs[BrightnessVid(last.vid)].level

\* C9 (amended): a write of level L to a group with a brightness delegate A
\* sets A's cached level to L and sends A's level command exactly when A's
\* level differed from L; it also sets the group-local cached level to L
\* and sends the group's own level command exactly when that differed; a
\* read of the group's level waits on A and returns A's cached level.
C9_GroupLevelDelegates ==
    /\ (last.op = "set" /\ BrightnessVid(last.vid) # 0) =>
          /\ outs[BrightnessVid(last.vid)].level = last.level
          /\ last.preB # last.level <=>
                LevelCommand(BrightnessVid(last.vid), last.level) \in Range(sent)
          /\ outs[last.vid].level = last.level
          /\ last.pre # last.level <=>
                LevelCommand(last.vid, last.level) \in Range(sent)
    /\ (last.op = "read" /\ BrightnessVid(last.vid) # 0) =>
          /\ last.on = BrightnessVid(last.vid)
          /\ last.level = outs[BrightnessVid(last.vid)].level

\* C9 witness: the group's level was written with a value that differs from
\* A's and from the group's own cached level
C9_Witness ==
    /\ last.op = "set" /\ BrightnessVid(last.vid) # 0
    /\ last.level = 335 /\ last.preB = 0 /\ last.pre = 0
    /\ Len(sent) = 2


\* C2 (as stated): the action is invoked by exactly the caller that registers
\* into an empty waiter set, and between two consecutive notify() calls (or
\* from creation to the first notify) the action runs at most once.
C2_AtMostOneRunPerInterval ==
    /\ cHist.acted \subseteq cHist.regEmpty
    /\ cHist.runs <= 1

\* C2 (amended): the action is invoked by exactly the caller that registers
\* into an empty waiter set and by no other caller; between two consecutive
\* notify() calls at most one caller is told to run it, and the number of
\* action runs never exceeds the number of notify() calls plus one (a run may
\* be delayed past a later notify, because it happens outside the lock).
C2_Coalescing ==
    /\ cHist.acted \subseteq cHist.regEmpty
    /\ \A t \in Callers :
          (cpc[t] \in {"wait", "idle"} /\ cEv[t] \in cHist.regEmpty)
              => cEv[t] \in cHist.acted
    /\ cHist.trig <= 1
    /\ cHist.totalRuns <= cHist.notifs + 1

\* C2 witness: two callers requested in the same interval, both are past the
\* action step, and the action has run exactly once (by the first of them).
C2_Witness ==
    /\ Len(cEvents) = 2
    /\ \A t \in Callers : cpc[t] = "wait"
    /\ cHist.runs = 1
    /\ Cardinality(cHist.acted) = 1

\* C3: every waiter registered before a notify() call has its event set by
\* that call, the waiters it took are no longer registered, and under any
\* interleaving with request() no registered waiter is lost: each is set, or
\* still registered for the next notify, or about to be set by the running one.
C3_NotifyWakesAll ==
    /\ cHist.all \subseteq (cSet \cup Range(cEvents) \cup Range(nLocal))
    /\ npc = "idle" => cHist.snap \subseteq cSet
    /\ Range(cEvents) \cap (cHist.snap \cup cSet) = {}

\* C3 witness: a notify() has completed having woken two waiters, while a
\* request() that arrived during it is still registered for the next one.
C3_Witness ==
    /\ npc = "idle"
    /\ cHist.notifs >= 1
    /\ Cardinality(cHist.snap) >= 2
    /\ cHist.snap \subseteq cSet
    /\ cEvents # <<>>

C13_RoundRobin ==
    lv.ls.out \in {"written", "lost", "BrokenPipeError"} =>
        lv.iconn = IF lv.ls.get THEN lv.ls.conn
                   ELSE (lv.ls.conn + 1) % NumConnections
\* a GET was written on connection 1: an earlier command moved the cursor
\* there, and the GET left it there
C13_Witness ==
    /\ lv.ls.out = "written"
    /\ lv.ls.get
    /\ lv.ls.conn = 1
    /\ lv.iconn = 1

\* C14: once the receive loop has read zero bytes from a connection the
\* peer closed, every connection gets marked disconnected and every socket
\* closed.
C14_DisconnectAllOnClose ==
    lv.zero ~> (\A i \in Conns : ~lv.connected[i] /\ lv.sockets[i] = "None")

\* C15: no write raises ConnectionResetError to its caller, a write that
\* fails with a broken pipe unmarks the connection it was made on and no
\* other, and if the panel accepts connections from some time on, a
\* connection unmarked after connect() returned gets marked again.
C15_BrokenWriteRecovers ==
    /\ [](lv.ls.out # "ConnectionResetError")
    /\ [][lv'.ls.out = "BrokenPipeError" =>
            \A i \in Conns : lv'.connected[i] = (lv.connected[i] /\ i # lv'.ls.conn)]_vars
    /\ \A i \in Conns :
          <>[](lv.panel = "up") =>
              ((lv.cpc = "returned" /\ ~lv.connected[i]) ~> lv.connected[i])

\* C16: a step of the receive loop on a line with an unknown op marker, a
\* single part, a command outside the allow-list of its marker, an id that
\* is no number or an id that is not routed changes no Output, invokes no
\* subscriber and raises nothing; and the loop keeps running after every
\* line, also one whose update handler raised.
C16_DecodeFaultsLocal ==
    /\ [][(last'.op \in {"drop", "raise", "recv", "noop"} /\ last'.fault # "none") =>
            /\ outs' = outs
            /\ last'.called = <<>>
            /\ last'.exc = ""]_vars
    /\ [](loop = "running")
\* a line for an unrouted id was dropped after an earlier line had set a
\* level, and the loop runs
C16_Witness ==
    /\ last.op = "drop"
    /\ last.fault = "unrouted"
    /\ \E v \in Vids : outs[v].level # 0
    /\ loop = "running"

\* the vids of the objects a parser list holds
VidsIn(list) == {reg.objs[list[k]].vid : k \in DOMAIN list}
\* the configuration has a sensor whose parsing throws
SensorThrows == \E k \in DOMAIN cfg.sensors : SensorKind(cfg.sensors[k].model) = "KeyError"

\* C17: when parsing one entity throws (here a sensor of a Model the parser
\* does not know), the parse still completes, the entity is omitted and every
\* other entity of the configuration (the load, the other sensors, the tasks)
\* is produced
C17_FaultsIsolated ==
    SensorThrows =>
        /\ ps.pc # "failed"
        /\ ps.pc = "done" =>
              /\ VidsIn(ps.sensors) =
                   {cfg.sensors[k].vid : k \in {j \in DOMAIN cfg.sensors :
                        SensorKind(cfg.sensors[j].model) # "KeyError"}}
              /\ VidsIn(ps.tasks) = {cfg.tasks[k].vid : k \in DOMAIN cfg.tasks}
              /\ VidsIn(ps.outputs) = {cfg.loads[k].vid : k \in DOMAIN cfg.loads}

\* C18: set_variable_vid with a text value holding a double quote, a newline
\* or a carriage return anywhere raises to the caller and sends no VARIABLE
\* command
C18_ForbiddenTextRejected ==
    (tv.pc \in {"set", "raised"} /\ ~NumMatch(tv.written)
     /\ \E i \in DOMAIN tv.written : tv.written[i] \in {"\"", "\n", "\r"})
        => tv.pc = "raised" /\ tv.wire = <<>>

\* the names of the tasks of the configuration
NamesOfTasks == {cfg.tasks[k].name : k \in DOMAIN cfg.tasks}

\* C19: call_task with a name no parsed task has raises to the caller and
\* sends nothing; with the name of a task it sends `TASK <vid> RELEASE` for
\* a task of that name
C19_CallTaskByName ==
    ps.call.name # <<>> =>
        IF ps.call.name \in NamesOfTasks
        THEN /\ ps.call.exc = ""
             /\ \E k \in DOMAIN cfg.tasks :
                   /\ cfg.tasks[k].name = ps.call.name
                   /\ ps.call.sent = <<"TASK", cfg.tasks[k].vid, "RELEASE">>
        ELSE ps.call.exc # "" /\ ps.call.sent = <<>>

\* C19, the part about a name that is known
C19_KnownNameSends ==
    (ps.call.name # <<>> /\ ps.call.name \in NamesOfTasks) =>
        /\ ps.call.exc = ""
        /\ \E k \in DOMAIN cfg.tasks :
              /\ cfg.tasks[k].name = ps.call.name
              /\ ps.call.sent = <<"TASK", cfg.tasks[k].vid, "RELEASE">>

\* C20: an update for the Button of a Keypad gives the Keypad the button's
\* position, name and action and invokes the Keypad's subscriber but not the
\* subscriber of the Button; an update for a dry contact invokes the
\* contact's own subscriber
C20_ButtonForwarding ==
    /\ (last.op = "recv" /\ last.vid = 5) =>
          /\ pads.keypad = [value |-> PadButtons[5].num, name |-> PadButtons[5].name,
                            action |-> pads.value[5]]
          /\ 4 \in pads.subs => 4 \in Range(last.called)
          /\ 5 \notin Range(last.called)
    /\ (last.op = "recv" /\ last.vid = 6 /\ 6 \in pads.subs) =>
          last.called = <<6>>

\* the subscribed among the entities of a list, in its order
RECURSIVE Subscribed(_)
Subscribed(list) ==
    IF list = <<>> THEN <<>>
    ELSE (IF Head(list) \in pads.subs THEN <<Head(list)>> ELSE <<>>)
         \o Subscribed(Tail(list))

\* C20 as the code has it: an update for the Button of a Keypad gives the
\* Keypad the button's position, name and action and invokes the Keypad's
\* subscriber and then the Button's own, each if there is one; an update
\* for a dry contact invokes the contact's subscriber only and leaves the
\* Keypad alone
C20_ButtonAndKeypadNotified ==
    /\ (last.op = "recv" /\ last.vid = 5) =>
          /\ pads.keypad = [value |-> PadButtons[5].num, name |-> PadButtons[5].name,
                            action |-> pads.value[5]]
          /\ last.called = Subscribed(<<4, 5>>)
    /\ (last.op = "recv" /\ last.vid = 6) => last.called = Subscribed(<<6>>)
    /\ pads.keypad.action \in {"", pads.value[5]}
\* a PRESS of the Button arrived with the Keypad and the Button subscribed
C20_Witness ==
    /\ last.op = "recv" /\ last.vid = 5
    /\ last.called = <<4, 5>>
    /\ pads.keypad = [value |-> "3", name |-> "Room-Up [B]", action |-> "PRESS"]

\* what the handshake is to send on connection j
Expected(j) ==
    (IF hk.creds THEN <<"LOGIN">> ELSE <<>>) \o (IF j = 0 THEN StatusCmds ELSE <<>>)
\* the trace is sends and reads in turn, the sends being the first of cmds
InTurn(tr, cmds) ==
    /\ Len(tr) <= 2 * Len(cmds)
    /\ \A m \in DOMAIN tr :
          IF m % 2 = 1 THEN tr[m] = <<"send", cmds[(m + 1) \div 2]>>
          ELSE tr[m][1] = "read"

\* C21 as the code has it: each time connection j is established or
\* established again, LOGIN is sent first when credentials are set, then,
\* if and only if j = 0, the four subscriptions in their order, each
\* command after the read that follows the previous one has ended, with a
\* line or without one; a connection is marked connected with all of them
\* sent, and no subscription is written to a connection other than 0
C21_HandshakeInTurn ==
    \A j \in Conns :
        /\ InTurn(hk.trace[j], Expected(j))
        /\ (hk.open[j] /\ j \notin hk.need) => Len(hk.trace[j]) = 2 * Len(Expected(j))
        /\ j # 0 => \A m \in DOMAIN hk.trace[j] :
                        hk.trace[j][m][1] = "send"
                            => hk.trace[j][m][2] \notin Range(StatusCmds)
\* connection 0 was logged in a second time, one of its reads ending
\* without a line, and connection 1 is connected with LOGIN alone
C21_Witness ==
    /\ hk.logins = 1 /\ hk.need = {} /\ hk.creds
    /\ Len(hk.trace[0]) = 10
    /\ \E m \in DOMAIN hk.trace[0] : hk.trace[0][m] = <<"read", <<>>>>
    /\ Len(hk.trace[1]) = 2

\* C21: ... the four subscriptions are sent in that order, each after a reply
\* line to the previous command has been read
C21_RepliesAwaited ==
    \A j \in Conns :
        /\ InTurn(hk.trace[j], Expected(j))
        /\ \A m \in DOMAIN hk.trace[j] :
              m % 2 = 0 =>
                 /\ hk.trace[j][m][2] # <<>>
                 /\ hk.trace[j][m][2][1].src = j
                 /\ hk.trace[j][m][2][1].re = hk.trace[j][m - 1][2]

\* C22: every line the receive loop has taken from a socket is handed to the
\* callback once, in arrival order, with the index of the connection it
\* came on, also when one read returns several lines; and a line that was
\* received is delivered without further socket activity, so the loop never
\* waits in select() while a complete line is in its buffer
C22_LinesDelivered ==
    /\ \A m \in DOMAIN hk.got :
          /\ hk.got[m].line # <<>>
          /\ hk.got[m].conn = hk.got[m].line[1].src
          /\ \A m2 \in DOMAIN hk.got : m < m2 => hk.got[m].line[1].n < hk.got[m2].line[1].n
    /\ (hk.pc = "select" /\ hk.chunk # <<>>) => \E j \in Conns : hk.wire[j] # <<>>

\* the pairs of a GET reply and its push counterpart, each with the parts
\* after the command
GetPairs ==
    {<<"GETLOAD", "LOAD", <<vid, l>>>> : vid \in {"1", "2", "9"}, l \in {"0", "33.5"}}
    \cup {<<"GETBLIND", "BLIND", <<"8">> \o args>> :
             args \in {<<"33.5">>, <<"OPEN">>, <<"STOP">>, <<"POS", "0">>, <<"x">>, <<>>}}
    \cup {<<"GETVARIABLE", "VARIABLE", <<"7">> \o args>> : args \in {<<"33.5">>, <<"x">>}}
\* the two lines leave the same state, call the same subscribers and end
\* alike, the reply alone taking an entry from the pending commands
SameButPop(get, push, rest) ==
    /\ RecvResult("R", <<get>> \o rest) = RecvResult("S", <<push>> \o rest)
    /\ RecvOp(RecvResult("R", <<get>> \o rest), "R", <<get>> \o rest)
         = [RecvOp(RecvResult("S", <<push>> \o rest), "S", <<push>> \o rest)
               EXCEPT !.pop = TRUE]
    /\ ~RecvOp(RecvResult("S", <<push>> \o rest), "S", <<push>> \o rest).pop

\* C23: in every state, dispatching `R:GETLOAD <id> <level>` leaves the same
\* state and invokes the same subscriber as dispatching `S:LOAD <id>
\* <level>`, likewise GETBLIND/BLIND and GETVARIABLE/VARIABLE; the reply
\* differs only in taking one entry from the pending commands
C23_GetNormalized == \A g \in GetPairs : SameButPop(g[1], g[2], g[3])
\* a GETLOAD reply has set the level of a lamp, a GETBLIND reply the level
\* of the subscribed Shade, whose subscriber was called
C23_Witness ==
    /\ last.op = "recv" /\ last.pop /\ last.vid = 8 /\ last.called = <<8>>
    /\ pads.shade.level = <<335>>
    /\ outs[1].level = 335

\* C30: every read of the Shade's level sends GETBLIND unless a query sent
\* for an earlier read still awaits its reply, and the reply releases the
\* waiting readers: a reader never waits with no query awaiting a reply and
\* its event not set
C30_ShadeReadQueries ==
    (rd.pc = "waiting" /\ rd.target \in ShadeVids) => (pads.shade.asked \/ rd.isSet)

\* the lines given to the callback that begin with R
Replies == SelectSeq(hk.got, LAMBDA g : g.line[1].typ = "R")
\* the commands of a sequence of commands that have been written
WrittenOf(cmds) ==
    SelectSeq(cmds, LAMBDA x : \E m \in DOMAIN hk.written : hk.written[m].cmd = x)

\* C24: the commands enter the pending commands in the order in which they
\* are written to the transport, each line beginning with R takes the oldest
\* entry and a line beginning with S none, so that the k-th line beginning
\* with R is reported with the k-th command written
C24_FifoFollowsWrites ==
    /\ WrittenOf(hk.app) = [m \in DOMAIN hk.written |-> hk.written[m].cmd]
    /\ \A m \in DOMAIN hk.got : hk.got[m].line[1].typ = "S" => hk.got[m].cmd = <<>>
    /\ \A k \in DOMAIN Replies : Replies[k].cmd = <<hk.written[k].cmd>>

\* C24, the part about the pops alone: the k-th line beginning with R takes
\* the k-th command appended, a line beginning with S none
C24_PopsOldest ==
    /\ \A m \in DOMAIN hk.got : hk.got[m].line[1].typ = "S" => hk.got[m].cmd = <<>>
    /\ \A k \in DOMAIN Replies : Replies[k].cmd = <<hk.app[k]>>
    /\ hk.fifo = DropFirst(hk.app, Len(Replies))

\* the level commands among the commands of the last step that are
\* addressed to Output v
LevelCmds(v) == SelectSeq(sent, LAMBDA c : c.op \in {"RAMPLOAD", "LOAD"} /\ c.vid = v)
\* a write of `level` on a single load that changes the cached level
LevelWritten ==
    last.op = "set" /\ topo[last.vid].kind # "GROUP" /\ last.pre # last.level

\* C25: a write of a level L that differs from the cached level sends, for
\* a dimmable Output, one RAMPLOAD with round(L) and the down duration when
\* the level goes down and the up duration when it goes up, for another
\* Output one LOAD with round(L); the cached level becomes L
C25_LevelWrite ==
    LevelWritten =>
        /\ outs[last.vid].level = last.level
        /\ LevelCmds(last.vid) =
              <<[op |-> IF IsDimmable(last.vid) THEN "RAMPLOAD" ELSE "LOAD",
                 vid |-> last.vid,
                 args |-> IF IsDimmable(last.vid)
                          THEN <<ToString(PyRound(last.level)),
                                 outs[last.vid].ramp[IF last.level < last.pre
                                                     THEN 2 ELSE 1]>>
                          ELSE <<ToString(PyRound(last.level))>>]>>

\* C25, as the code has it: the last command of the write is the level
\* command, with the down duration for level 0 alone
C25_DownOnlyToZero ==
    LevelWritten =>
        /\ outs[last.vid].level = last.level
        /\ sent # <<>> /\ sent[Len(sent)] = LevelCommand(last.vid, last.level)

\* the colour-invoke commands among the commands of the last step
Invokes == SelectSeq(sent, LAMBDA c : c.op = "INVOKE")

\* C27: a new `rgb` or `hs` written at cached level 0 marks the Output
\* dirty and sends no colour-invoke command; written at a level above 0 it
\* is sent at once and the Output is not left dirty
C27_DeferredFlush ==
    (last.op \in {"rgb", "hs"} /\ ~last.same) =>
        IF last.pre = 0
        THEN outs[last.on].dirty /\ Invokes = <<>>
        ELSE ~outs[last.on].dirty /\ Invokes # <<>>

\* C27, the flush alone: a level report or a level write with a level
\* above 0 on a dirty single load sends the colour-invoke command and
\* clears the mark
C27_FlushOnLevelUpdate ==
    [][\A v \in Vids :
         (/\ last'.op \in {"set", "recv"} /\ last'.vid = v /\ last'.level > 0
          /\ topo[v].kind = "LIGHT" /\ outs[v].dirty)
         => /\ ~outs'[v].dirty
            /\ \E k \in DOMAIN sent' :
                  sent'[k] = [op |-> "INVOKE", vid |-> v, args |-> <<"RGBLoad.SetRGBW">>]
        ]_vars

\* the loads a colour temperature is written to as a colour
DmxCapable(v) == topo[v].dmx \/ topo[v].ltype = "DW"

\* C28: a write of a new colour temperature on a DMX-capable load sends no
\* RAMPLOAD for the colour temperature, on a load with a colour control
\* exactly one RAMPLOAD, addressed to the colour control; the cached colour
\* temperature becomes the value written
C28_ColorTempWrite ==
    (last.op = "ctemp" /\ last.pre # last.kelvin) =>
        /\ outs[last.on].colorTemp = last.kelvin
        /\ DmxCapable(last.on) =>
              \A k \in DOMAIN sent :
                  ~(sent[k].op = "RAMPLOAD" /\ sent[k].vid = topo[last.on].ccvid)
        /\ (~DmxCapable(last.on) /\ topo[last.on].ccvid # 0) =>
              sent = <<[op |-> "RAMPLOAD", vid |-> topo[last.on].ccvid,
                        args |-> <<ToString(PyRound(KelvinToLevel(last.kelvin))),
                                   outs[last.on].ramp[3]>>]>>

\* C28, as the code has it: the RAMPLOAD is sent for every load, to id
\* None (0) when the load has no colour control
C28_RampAlways ==
    (last.op = "ctemp" /\ last.pre # last.kelvin) =>
        /\ outs[last.on].colorTemp = last.kelvin
        /\ sent # <<>>
        /\ sent[Len(sent)] =
              [op |-> "RAMPLOAD", vid |-> topo[last.on].ccvid,
               args |-> <<ToString(PyRound(KelvinToLevel(last.kelvin))),
                          outs[last.on].ramp[3]>>]

\* C29: a level report L for a colour control paired with a load sets the
\* load's colour temperature to the Kelvin value of L, releases the load's
\* waiters and calls the load's subscriber, and leaves every cached level
\* as it was; a report for a colour control without a load changes nothing
\* and calls no subscriber
C29_ColorPairing ==
    [][\A v \in Vids :
         (last'.op = "recv" /\ last'.vid = v /\ topo[v].kind = "COLOR") =>
            /\ sent' = <<>>
            /\ IF topo[v].ccvid \in Vids
               THEN /\ outs' = [outs EXCEPT
                                  ![topo[v].ccvid].colorTemp = LevelToKelvin(last'.level),
                                  ![topo[v].ccvid].events = <<>>]
                    /\ "live" \in Range(outs[topo[v].ccvid].events) => rd'.isSet
                    /\ last'.called = <<topo[v].ccvid>>
               ELSE outs' = outs /\ rd' = rd /\ last'.called = <<>>
      ]_vars

\* C29: a report of 33.5 for the colour control has set the lamp's colour
\* temperature to 3473 K while a caller waited for the lamp's level
C29_Witness ==
    /\ last.op = "recv" /\ last.level = 335
    /\ topo[last.vid].kind = "COLOR" /\ topo[last.vid].ccvid \in Vids
    /\ outs[topo[last.vid].ccvid].colorTemp = 34730
    /\ outs[topo[last.vid].ccvid].level = 0
    /\ rd.pc = "waiting" /\ rd.on = topo[last.vid].ccvid /\ rd.isSet
    /\ last.called = <<topo[last.vid].ccvid>>

\* C29: a report for the colour control whose lamp was not found has been
\* dispatched
C29_OrphanWitness ==
    /\ last.op = "recv" /\ last.level = 335
    /\ topo[last.vid].kind = "COLOR" /\ topo[last.vid].ccvid \notin Vids
    /\ last.called = <<>>

\* the positions of a command among the commands the Output has sent
Sent(cmd) == {k \in DOMAIN qv.sent : qv.sent[k] = cmd}

\* C26: over every interleaving of reads and notifications a colour Output
\* sends ADDSTATUS at most once and before its first GETLOAD, and an
\* Output without colour never sends it
C26_AddStatusOnce ==
    /\ Cardinality(Sent("ADDSTATUS")) <= (IF qv.color THEN 1 ELSE 0)
    /\ (qv.color /\ Sent("GETLOAD") # {}) =>
          \E k \in Sent("ADDSTATUS") : \A g \in Sent("GETLOAD") : k < g

\* C26, the order alone: an ADDSTATUS goes before the first GETLOAD of a
\* colour Output, and an Output without colour never sends one
C26_AddStatusFirst ==
    /\ ~qv.color => Sent("ADDSTATUS") = {}
    /\ (qv.color /\ Sent("GETLOAD") # {}) =>
          \E k \in Sent("ADDSTATUS") : \A g \in Sent("GETLOAD") : k < g

\* C31: every call of open(), close() or stop() that returned has sent
\* LOAD <relay> 100 for its relay and afterwards LOAD <relay> 0
C31_RelayPulse ==
    \A k \in DOMAIN s3.done :
        /\ s3.done[k].hi > 0 /\ s3.done[k].hi < s3.done[k].lo
        /\ s3.sent[s3.done[k].lo] = <<s3.done[k].relay, "0">>

\* C31, what every call does send: LOAD <relay> 0 for its relay, and
\* LOAD <relay> 100 before it when the call found no waiter registered
C31_ReleaseAlways ==
    \A k \in DOMAIN s3.done :
        /\ s3.sent[s3.done[k].lo] = <<s3.done[k].relay, "0">>
        /\ s3.done[k].hi > 0 =>
              /\ s3.done[k].hi < s3.done[k].lo
              /\ s3.sent[s3.done[k].hi] = <<s3.done[k].relay, "100">>

\* C32: with an is-open contact open() and close() leave the cached
\* open/closed value alone, and it is true after a PRESS and false after a
\* RELEASE of the contact; without one open() sets it true and close() false
C32_OpenState ==
    s3.last # <<>> =>
        /\ (s3.last[1] = "finish" /\ s3.isopenVid # 0) => s3.isOpen = s3.last[3]
        /\ (s3.last[1] = "finish" /\ s3.isopenVid = 0 /\ s3.last[2] = "open") =>
              s3.isOpen = "True"
        /\ (s3.last[1] = "finish" /\ s3.isopenVid = 0 /\ s3.last[2] = "close") =>
              s3.isOpen = "False"
        /\ (s3.last[1] = "contact" /\ s3.route = "Button") =>
              s3.isOpen = (IF s3.last[2] = "PRESS" THEN "True" ELSE "False")

\* C32, the part that holds: what open() and close() do to the value, and
\* what a contact report does when the Shade3 itself is registered for it
C32_OptimisticOnly ==
    s3.last # <<>> =>
        /\ (s3.last[1] = "finish" /\ s3.isopenVid # 0) => s3.isOpen = s3.last[3]
        /\ (s3.last[1] = "finish" /\ s3.isopenVid = 0 /\ s3.last[2] = "open") =>
              s3.isOpen = "True"
        /\ (s3.last[1] = "finish" /\ s3.isopenVid = 0 /\ s3.last[2] = "close") =>
              s3.isOpen = "False"
        /\ (s3.last[1] = "contact" /\ s3.route = "Shade3") =>
              s3.isOpen = (IF s3.last[2] = "PRESS" THEN "True" ELSE "False")

\* C32, the registry after a parse: the is-open contact of every Shade3 is
\* routed to a Button
C32_ContactRoutedToButton ==
    ps.pc = "done" =>
        \A o \in DOMAIN reg.objs :
            (reg.objs[o].cls = "Shade3" /\ reg.objs[o].vids[1] # 0) =>
                /\ Routed(reg, "BTN", reg.objs[o].vids[1]) # 0
                /\ reg.objs[Routed(reg, "BTN", reg.objs[o].vids[1])].cls = "Button"

\* the buttons of the keypad with vid k
ButtonsOf(k) == {b \in DOMAIN PadButtons : PadButtons[b].keypad = k}

\* C33: after an update of a keypad's button the Keypad's value is the name
\* of that button
C33_KeypadValueIsName ==
    (last.op = "recv" /\ last.vid \in ButtonsOf(4)) =>
        /\ pads.keypad.value = PadButtons[last.vid].name

\* C33, as the code has it: the Keypad's value is the position of the
\* button, and its name is kept as extra information
C33_KeypadValueIsNumber ==
    (last.op = "recv" /\ last.vid \in ButtonsOf(4)) =>
        /\ pads.keypad.value = PadButtons[last.vid].num
        /\ pads.keypad.name = PadButtons[last.vid].name

\* the entities the routing table holds, and the ids the name table holds
RoutedEntities(r) == UNION {Range(r.ids[t]) : t \in DOMAIN r.ids}
NamedVids(r) == Range(r.names)

\* C34: a second do_parse ends normally and leaves the routing table and
\* the name table with the entities of the second parse alone, named as a
\* single parse names them; on the same configuration it publishes what
\* the first parse published
C34_ReparseReplaces ==
    ps.run = 2 =>
        /\ ps.pc # "failed"
        /\ ps.pc = "done" =>
              /\ RoutedEntities(reg) \subseteq Parsed(ps)
              /\ DOMAIN reg.names = {reg.objs[o].name : o \in Parsed(ps)}
              /\ cfg # LampOnly => Published(reg, ps) = ps.first

\* --------------------------------------------------------------------
\* C35  A Load element named "NOT USED", or whose name starts with
\* "Station Load " or "Color Load ", yields no Output and no routing entry;
\* every other well-formed Load element (here: the lamp) yields exactly one
\* Output.
ExcludedName(n) ==
    \/ n = <<"NOT USED">>
    \/ StartsWith(n, StationLoadPrefix)
    \/ StartsWith(n, ColorLoadPrefix)
OutputsOf(vid) == {i \in DOMAIN ps.outputs : reg.objs[ps.outputs[i]].vid = vid}
C35_ExcludedLoads ==
    ps.pc = "done" =>
        \A i \in DOMAIN cfg.loads :
            LET ld == cfg.loads[i]
            IN /\ ExcludedName(ld.name)
                    => OutputsOf(ld.vid) = {} /\ Routed(reg, "LOAD", ld.vid) = 0
               /\ ld.vid = Lamp.vid /\ ld.ltype = Lamp.ltype
                    => Cardinality(OutputsOf(ld.vid)) = 1

\* C35 (what the parser does): every Load element of these configurations,
\* whatever its name, yields exactly one routed Output.
C35_NoExclusion ==
    ps.pc = "done" /\ Spare(<<>>).vid \in {cfg.loads[i].vid : i \in DOMAIN cfg.loads} =>
        \A i \in DOMAIN cfg.loads :
            /\ Cardinality(OutputsOf(cfg.loads[i].vid)) = 1
            /\ Routed(reg, "LOAD", cfg.loads[i].vid) # 0

\* --------------------------------------------------------------------
\* C40  A Shade3, which registers up to four ids, has after its last
\* registration the name its first registration gave it: the lineage prefix
\* applied once to the shade's own name, with no "(<id>)" suffix, as no
\* other entity of these configurations bears that name.
OpenRelay(vid) == CHOOSE i \in DOMAIN cfg.loads : cfg.loads[i].vid = vid
FirstName(obj) ==
    HierarchicalName(reg.areas,
        [obj EXCEPT !.name = ButLast(Strip(cfg.loads[OpenRelay(obj.vid)].name))])
C40_NamedOnce ==
    ps.pc = "done" =>
        \A o \in DOMAIN reg.objs :
            reg.objs[o].cls = "Shade3" => reg.objs[o].name = FirstName(reg.objs[o])

\* C40 (what register_id does): each registration after the first finds
\* the shade's own name in the name table and appends the suffix again.
RECURSIVE Suffixed(_, _, _)
Suffixed(name, vid, n) ==
    IF n = 0 THEN name ELSE Suffixed(name \o VidSuffix(vid), vid, n - 1)
C40_SuffixPerRegistration ==
    ps.pc = "done" =>
        \A o \in DOMAIN reg.objs :
            reg.objs[o].cls = "Shade3" =>
                reg.objs[o].name =
                    Suffixed(FirstName(reg.objs[o]), reg.objs[o].vid,
                             Len(Shade3Registrations(reg.objs[o].vids)) - 1)

\* --------------------------------------------------------------------
\* C36  A `level` read made on an Output after an earlier read of it timed
\* out (its reply never came, the abandoned event is still registered) does
\* the query: the caller is about to send GETLOAD.
C36_ReissueAfterTimeout ==
    last.op = "request" /\ last.abandoned => rd.pc = "action"

\* C36 (what request() does): with an abandoned event in __events the new
\* request is not the first, so it only waits and no GETLOAD is sent.
C36_NoReissue ==
    last.op = "request" /\ last.abandoned => rd.pc = "waiting" /\ sent = <<>>

\* --------------------------------------------------------------------
\* C38  Handling a LOAD status line for the brightness delegate of a
\* LoadGroup sets the cached level of the member and of the group and
\* empties their waiter lists, and writes no LOAD or RAMPLOAD for either.
DelegateReport ==
    last.op = "recv" /\ last.fault = "none" /\ BrightnessGroup(last.vid) # 0
C38_UpdateWritesNothing ==
    DelegateReport =>
        /\ outs[last.vid].level = last.level
        /\ outs[BrightnessGroup(last.vid)].level = last.level
        /\ outs[last.vid].events = <<>>
        /\ outs[BrightnessGroup(last.vid)].events = <<>>
        /\ LevelCmds(last.vid) = <<>>
        /\ LevelCmds(BrightnessGroup(last.vid)) = <<>>

\* C38 (what handle_update does): the caches are set and the waiters
\* released, and nothing is written for the member itself.
C38_CachesUpdated ==
    DelegateReport =>
        /\ outs[last.vid].level = last.level
        /\ outs[BrightnessGroup(last.vid)].level = last.level
        /\ outs[last.vid].events = <<>>
        /\ outs[BrightnessGroup(last.vid)].events = <<>>
        /\ LevelCmds(last.vid) = <<>>

\* --------------------------------------------------------------------
\* C37  Once connect() has returned, a caller's send, however it falls
\* between the steps of the worker, never raises to the caller: it is
\* written to a socket the client holds open, or its failure is absorbed
\* (BrokenPipeError caught, the connection unmarked).
C37_SendNeverRaises ==
    [][(lv.cpc = "returned" /\ lv'.ls # lv.ls)
          => lv'.ls.out \in {"written", "lost", "BrokenPipeError"}]_vars

\* C37 (what send_ascii_nl does): after connect() has returned every socket
\* object exists, so no send meets None; the one error that reaches the
\* caller is ConnectionResetError.
C37_OnlyResetRaises ==
    [][(lv.cpc = "returned" /\ lv'.ls # lv.ls)
          => lv'.ls.out \in {"written", "lost", "BrokenPipeError",
                             "ConnectionResetError"}]_vars

\* --------------------------------------------------------------------
\* C39  Whenever no setter and no update handler of the Output is in
\* progress, the dirty flag is set only if the cached level is 0, however
\* the rgb, hs and level writes of the callers and the level reports handled
\* by the worker are interleaved.
Quiescent == \A t \in Threads : dz.pc[t] = "idle"
C39_DirtyOnlyAtZero == Quiescent /\ dz.dirty => dz.level = 0

\* C39 (what the setters do): the flag outlives a setter at a level above 0
\* only when a write of that setter or handler raised.
C39_DirtyUnlessRaised == Quiescent /\ dz.dirty /\ ~dz.raised => dz.level = 0


====
